---- MODULE Spec2Model ----
(***************************************************************************)
(* A model of the restaurant API (menu catalog, cart, order workflow and   *)
(* the role/permission gate in front of them).                             *)
(*                                                                         *)
(* Money is kept in cents (a DecimalField with two decimal places), rows   *)
(* are records, tables are sets of rows.  A request handler that issues    *)
(* one write is one action; order creation and add-to-cart, which read and *)
(* then write, are split at their database statements and run in a worker  *)
(* slot, so that a failure between statements and two interleaved requests *)
(* can be expressed.                                                       *)
(***************************************************************************)
EXTENDS Integers, Sequences, FiniteSets, TLC

(***************************************************************************)
(* Bounds of the model                                                     *)
(***************************************************************************)
MaxCartId == 2        \* cart rows ever inserted
MaxOrderId == 2       \* order rows ever inserted
MaxMenuId == 2        \* menu item rows ever inserted
MaxCategoryId == 2    \* category rows ever inserted
MaxWorkers == 2       \* worker slots (requests in flight at once)
MaxDay == 2           \* days the clock runs
MaxTokenId == 4       \* tokens issued
MaxClock == 750       \* minutes the clock runs

(***************************************************************************)
(* Program constants                                                       *)
(***************************************************************************)
QTY_MIN == 1
QTY_MAX == 99
PRICE_MAX == 10000            \* 100.00
DECIMAL_MAX == 999999         \* max_digits=6, decimal_places=2: 9999.99

NULL == "null"
NoItem == 0                   \* a null reference to a menu item
ANON == "anonymous"           \* a request without credentials

MANAGER == "Manager"
DELIVERY_CREW == "Delivery crew"
STAFF_GROUPS == {MANAGER, DELIVERY_CREW}

Users == {"amy", "ann", "bob", "cat"}
Requesters == Users \cup {ANON}
\* An admin (is_staff) and the username the demo login draws
Admins == {"dan"}
DemoNames == {"dem"}
Accounts == Users \cup Admins \cup DemoNames

Has(payload, field) == field \in DOMAIN payload

\* Row ids and worker slots
MenuIds == 1..MaxMenuId
CartIds == 1..MaxCartId
OrderIds == 1..MaxOrderId
Slots == 1..MaxWorkers
\* Bodies of an order update: a record with the fields the client sent
OrderPayloads ==
    {[status |-> b] : b \in BOOLEAN}
    \cup {[delivery_crew |-> x] : x \in {"amy", "bob", NULL}}
    \cup {[status |-> TRUE, delivery_crew |-> "bob"]}
    \cup {[status |-> TRUE, total |-> 0], [total |-> 0]}

VARIABLES
    groups,      \* auth groups of each user
    categories,  \* table Category
    menuitems,   \* table MenuItem
    cart,        \* table Cart
    orders,      \* table Order
    orderitems,  \* table OrderItem
    nextId,      \* the tables' auto-increment counters
    demoMode,    \* settings.DEMO_MODE
    today,       \* timezone.now().date()
    clock,       \* timezone.now(), in minutes
    users,       \* table CustomUser: is_staff, is_demo, demo_expires_at
    tokens,      \* the JSON web tokens issued to demo users
    workers,     \* number of requests the deployment handles at once
    inflight,    \* the request each worker slot is handling
    resp         \* the last response sent

db == <<categories, menuitems, cart, orders, orderitems>>
auth == <<clock, users, tokens>>
vars == <<groups, categories, menuitems, cart, orders, orderitems, nextId,
          demoMode, auth, today, workers, inflight, resp>>

Idle == [kind |-> "idle"]

RECURSIVE SumPrice(_)
SumPrice(S) ==
    IF S = {} THEN 0
    ELSE LET x == CHOOSE y \in S : TRUE
         IN x.price + SumPrice(S \ {x})

Min(S) == CHOOSE x \in S : \A y \in S : x <= y

(***************************************************************************)
(* Users                                                                   *)
(***************************************************************************)
\* DemoUserMixin.is_demo
UserIsDemo(u) == users[u].is_demo
\* user.is_staff or user.is_superuser
UserIsAdmin(u) == users[u].is_staff

\* priority.get(r, 99) of resolve_user_roles
RolePriority(r) ==
    CASE r = "manager" -> 1
      [] r = "delivery_crew" -> 2
      [] r = "customer" -> 3
      [] OTHER -> 99

\* One step of the stable sort: r goes before the first role that does not
\* come before it
InsertRole(r, sorted) ==
    LET ahead == {i \in 1..Len(sorted) : RolePriority(sorted[i]) < RolePriority(r)}
    IN SubSeq(sorted, 1, Cardinality(ahead)) \o <<r>>
       \o SubSeq(sorted, Cardinality(ahead) + 1, Len(sorted))

\* roles.sort(key=lambda r: priority.get(r, 99))
RECURSIVE SortRoles(_)
SortRoles(roles) ==
    IF roles = <<>> THEN <<>> ELSE InsertRole(roles[1], SortRoles(Tail(roles)))

DeliveryCrewFirst(u) ==
    LET g == groups[u]
        roles == (IF DELIVERY_CREW \in g THEN <<"delivery_crew">> ELSE <<>>)
                 \o (IF MANAGER \in g THEN <<"manager">> ELSE <<>>)
    IN IF roles = <<>> THEN <<"customer">> ELSE roles

\* resolve_user_roles: roles from group membership, sorted by priority
resolve_user_roles(u) ==
    LET g == groups[u]
        named == (IF MANAGER \in g THEN <<"manager">> ELSE <<>>)
                 \o (IF DELIVERY_CREW \in g THEN <<"delivery_crew">> ELSE <<>>)
        roles == IF named = <<>> THEN <<"customer">> ELSE named
    IN SortRoles(roles)

user_role(u) == resolve_user_roles(u)[1]

(***************************************************************************)
(* Permission classes.  Each is a predicate of the requester; a view's     *)
(* permissions are a sequence, all must pass.                              *)
(***************************************************************************)
SAFE_METHODS == {"GET", "HEAD", "OPTIONS"}

IsAuthenticated(u) == u # ANON
IsManager(u) == MANAGER \in groups[u]
IsCustomer(u) == groups[u] \cap STAFF_GROUPS = {}
IsManagerOrDeliveryCrew(u) == groups[u] \cap STAFF_GROUPS # {}
IsManagerOrReadOnly(u, method) == method \in SAFE_METHODS \/ MANAGER \in groups[u]
IsManagerOrAdminUser(u) == UserIsAdmin(u) \/ MANAGER \in groups[u]
ManagerForAllMethods(u, method) == UserIsAdmin(u) \/ MANAGER \in groups[u]

IsManagerForReadOnlyOrAdminUser(u, method) ==
    IF method \in SAFE_METHODS
    THEN UserIsAdmin(u) \/ MANAGER \in groups[u]
    ELSE UserIsAdmin(u)
ActiveUntilAfterExpiry(u) ==
    /\ UserIsDemo(u)
    /\ users[u].demo_expires_at # 0
    /\ ~(users[u].demo_expires_at < clock)

\* IsActiveDemo.has_permission: a demo user whose expiry is set (0 stands
\* for a missing demo_expires_at) and still ahead
IsActiveDemo(u) ==
    /\ UserIsDemo(u)
    /\ users[u].demo_expires_at # 0
    /\ ~(users[u].demo_expires_at < clock \/ users[u].demo_expires_at <= clock)

AlwaysPasses(perm, u, method) == TRUE

\* BasePermission.has_permission of the named class
Passes(perm, u, method) ==
    CASE perm = "IsAuthenticated" -> IsAuthenticated(u)
      [] perm = "IsActiveDemo" -> IsActiveDemo(u)
      [] perm = "IsManager" -> IsManager(u)
      [] perm = "IsCustomer" -> IsCustomer(u)
      [] perm = "IsManagerOrDeliveryCrew" -> IsManagerOrDeliveryCrew(u)
      [] perm = "IsManagerOrReadOnly" -> IsManagerOrReadOnly(u, method)
      [] perm = "IsManagerOrAdminUser" -> IsManagerOrAdminUser(u)
      [] perm = "IsManagerForReadOnlyOrAdminUser" ->
             IsManagerForReadOnlyOrAdminUser(u, method)

\* DemoScopeMixin.get_permissions: IsActiveDemo is inserted after a leading
\* IsAuthenticated for a demo user in demo mode.
DemoScopePermissions(perms, u) ==
    IF demoMode /\ u # ANON /\ UserIsDemo(u) /\ \A i \in 1..Len(perms) : perms[i] # "IsActiveDemo"
    THEN IF perms # <<>> /\ perms[1] = "IsAuthenticated"
         THEN <<perms[1], "IsActiveDemo">> \o Tail(perms)
         ELSE <<"IsActiveDemo">> \o perms
    ELSE perms

\* APIView.check_permissions: 0 when every permission passes, otherwise the
\* status of the denial (401 without credentials, 403 with).
\* The checks run in order and stop at the first failure; an anonymous
\* requester fails IsAuthenticated, which is first in every list.
Denied(perms, u, method) ==
    LET ps == DemoScopePermissions(perms, u)
    IN IF u = ANON THEN 401
       ELSE IF \E i \in 1..Len(ps) : ~Passes(ps[i], u, method) THEN 403
       ELSE 0

\* OrderViewSet.get_permissions
OrderPermissions(method) ==
    <<"IsAuthenticated">> \o
    (IF method = "POST" THEN <<"IsCustomer">>
     ELSE IF method \in {"PUT", "PATCH"} THEN <<"IsManagerOrDeliveryCrew">>
     ELSE IF method = "DELETE" THEN <<"IsManager">>
     ELSE <<>>)

CartPermissions == <<"IsAuthenticated", "IsCustomer">>
MenuPermissions == <<"IsAuthenticated", "IsManagerOrReadOnly">>

(***************************************************************************)
(* Workers                                                                 *)
(***************************************************************************)
Busy == {s \in Slots : inflight[s] # Idle}
FreeWorker == Cardinality(Busy) < workers
FreeSlot == Min(Slots \ Busy)

\* format_response: the status and the rows the response carries
RespondDetail(op, u, status, data, detail) ==
    resp' = [op |-> op, user |-> u, status |-> status, data |-> data, detail |-> detail]

Respond(op, u, status, data) == RespondDetail(op, u, status, data, "")

(***************************************************************************)
(* DemoScopeMixin: writes in demo mode.  The views name their demo mixin   *)
(* RestaurantDemoGuardMixin, imported from apps.restaurant.mixins; the     *)
(* package defines DemoScopeMixin only, which is what is modelled here.    *)
(***************************************************************************)
\* perform_create: rows created in demo mode are saved with is_demo=True
DemoCreateFlag == demoMode
\* perform_update / perform_destroy: in demo mode only demo rows may change
DemoWriteDenied(row) == demoMode /\ ~row.is_demo

(***************************************************************************)
(* Menu catalog: CategoryViewSet                                           *)
(***************************************************************************)
CategoryBySlug(slug) == {c \in categories : c.slug = slug}

\* CategorySerializer: slug and title are required on create and PUT, and
\* unique among the other categories.
CategoryValid(self, p, partial) ==
    /\ partial \/ (Has(p, "slug") /\ Has(p, "title"))
    /\ Has(p, "slug") => \A c \in categories \ self : c.slug # p.slug
    /\ Has(p, "title") => \A c \in categories \ self : c.title # p.title

CategoryCreate(u, p) ==
    /\ FreeWorker
    /\ LET d == Denied(MenuPermissions, u, "POST")
       IN IF d # 0
          THEN Respond("category_create", u, d, {}) /\ UNCHANGED <<db, nextId>>
          ELSE IF ~CategoryValid({}, p, FALSE)
          THEN Respond("category_create", u, 400, {}) /\ UNCHANGED <<db, nextId>>
          ELSE /\ nextId.category <= MaxCategoryId
               /\ categories' = categories \cup
                      {[id |-> nextId.category, slug |-> p.slug, title |-> p.title,
                        is_demo |-> DemoCreateFlag]}
               /\ nextId' = [nextId EXCEPT !.category = @ + 1]
               /\ Respond("category_create", u, 201, {nextId.category})
               /\ UNCHANGED <<menuitems, cart, orders, orderitems>>
    /\ UNCHANGED <<groups, demoMode, auth, today, workers, inflight>>

CategoryUpdate(u, key, p, partial) ==
    /\ FreeWorker
    /\ LET d == Denied(MenuPermissions, u, IF partial THEN "PATCH" ELSE "PUT")
           found == CategoryBySlug(key)
       IN IF d # 0
          THEN Respond("category_update", u, d, {}) /\ UNCHANGED db
          ELSE IF found = {}
          THEN Respond("category_update", u, 404, {}) /\ UNCHANGED db
          ELSE LET c == CHOOSE x \in found : TRUE
               IN IF ~CategoryValid({c}, p, partial)
                  THEN Respond("category_update", u, 400, {}) /\ UNCHANGED db
                  ELSE IF DemoWriteDenied(c)
                  THEN Respond("category_update", u, 403, {}) /\ UNCHANGED db
                  ELSE /\ categories' = (categories \ {c}) \cup
                              {[c EXCEPT !.slug = IF Has(p, "slug") THEN p.slug ELSE @,
                                         !.title = IF Has(p, "title") THEN p.title ELSE @]}
                       /\ Respond("category_update", u, 200, {c.id})
                       /\ UNCHANGED <<menuitems, cart, orders, orderitems>>
    /\ UNCHANGED <<groups, nextId, demoMode, auth, today, workers, inflight>>

\* CustomListModelMixin.list on CategoryViewSet
CategoryList(u) ==
    /\ FreeWorker
    /\ LET d == Denied(MenuPermissions, u, "GET")
       IN IF d # 0
          THEN Respond("category_list", u, d, {})
          ELSE Respond("category_list", u, 200, {c.id : c \in categories})
    /\ UNCHANGED <<db, groups, nextId, demoMode, auth, today, workers, inflight>>

\* CustomListModelMixin.list on MenuItemViewSet
MenuItemList(u) ==
    /\ FreeWorker
    /\ LET d == Denied(MenuPermissions, u, "GET")
       IN IF d # 0
          THEN Respond("menuitem_list", u, d, {})
          ELSE Respond("menuitem_list", u, 200, {m.id : m \in menuitems})
    /\ UNCHANGED <<db, groups, nextId, demoMode, auth, today, workers, inflight>>

\* MenuItem.category is on_delete=PROTECT: deleting a category that menu
\* items still reference raises ProtectedError.
CategoryDestroy(u, key) ==
    /\ FreeWorker
    /\ LET d == Denied(MenuPermissions, u, "DELETE")
           found == CategoryBySlug(key)
       IN IF d # 0
          THEN Respond("category_destroy", u, d, {}) /\ UNCHANGED db
          ELSE IF found = {}
          THEN Respond("category_destroy", u, 404, {}) /\ UNCHANGED db
          ELSE LET c == CHOOSE x \in found : TRUE
               IN IF DemoWriteDenied(c)
                  THEN Respond("category_destroy", u, 403, {}) /\ UNCHANGED db
                  ELSE IF \E m \in menuitems : m.category = c.id
                  THEN Respond("category_destroy", u, 500, {}) /\ UNCHANGED db
                  ELSE /\ categories' = categories \ {c}
                       /\ Respond("category_destroy", u, 200, {})
                       /\ UNCHANGED <<menuitems, cart, orders, orderitems>>
    /\ UNCHANGED <<groups, nextId, demoMode, auth, today, workers, inflight>>

(***************************************************************************)
(* Menu catalog: MenuItemViewSet                                           *)
(***************************************************************************)
MenuItemById(id) == {m \in menuitems : m.id = id}

PositivePrice(value) == value > 0

\* MenuItemWriteSerializer.validate_price
validate_price(value) == value > 0 /\ value <= PRICE_MAX

\* The message validate_price raises for the price of the payload, if any
PriceError(p) ==
    IF Has(p, "price") /\ p.price <= 0 THEN "Must be a positive number."
    ELSE IF Has(p, "price") /\ p.price > PRICE_MAX THEN "Must not exceed 100.00."
    ELSE ""

\* MenuItemWriteSerializer: title unique among the other items, price in
\* range, category an existing row; every field required unless partial.
MenuItemValid(self, p, partial) ==
    /\ partial \/ (Has(p, "title") /\ Has(p, "price") /\ Has(p, "category"))
    /\ Has(p, "title") => \A m \in menuitems \ self : m.title # p.title
    /\ Has(p, "price") => validate_price(p.price)
    /\ Has(p, "category") => \E c \in categories : c.id = p.category

MenuItemCreate(u, p) ==
    /\ FreeWorker
    /\ LET d == Denied(MenuPermissions, u, "POST")
       IN IF d # 0
          THEN Respond("menuitem_create", u, d, {}) /\ UNCHANGED <<db, nextId>>
          ELSE IF ~MenuItemValid({}, p, FALSE)
          THEN /\ RespondDetail("menuitem_create", u, 400, {}, PriceError(p))
               /\ UNCHANGED <<db, nextId>>
          ELSE /\ nextId.menuitem <= MaxMenuId
               /\ menuitems' = menuitems \cup
                      {[id |-> nextId.menuitem, title |-> p.title, price |-> p.price,
                        category |-> p.category, is_demo |-> DemoCreateFlag]}
               /\ nextId' = [nextId EXCEPT !.menuitem = @ + 1]
               /\ Respond("menuitem_create", u, 201, {nextId.menuitem})
               /\ UNCHANGED <<categories, cart, orders, orderitems>>
    /\ UNCHANGED <<groups, demoMode, auth, today, workers, inflight>>

MenuItemUpdate(u, id, p, partial) ==
    /\ FreeWorker
    /\ LET d == Denied(MenuPermissions, u, IF partial THEN "PATCH" ELSE "PUT")
           found == MenuItemById(id)
       IN IF d # 0
          THEN Respond("menuitem_update", u, d, {}) /\ UNCHANGED db
          ELSE IF found = {}
          THEN Respond("menuitem_update", u, 404, {}) /\ UNCHANGED db
          ELSE LET m == CHOOSE x \in found : TRUE
               IN IF ~MenuItemValid({m}, p, partial)
                  THEN /\ RespondDetail("menuitem_update", u, 400, {}, PriceError(p))
                       /\ UNCHANGED db
                  ELSE IF DemoWriteDenied(m)
                  THEN Respond("menuitem_update", u, 403, {}) /\ UNCHANGED db
                  ELSE /\ menuitems' = (menuitems \ {m}) \cup
                              {[m EXCEPT !.title = IF Has(p, "title") THEN p.title ELSE @,
                                         !.price = IF Has(p, "price") THEN p.price ELSE @,
                                         !.category = IF Has(p, "category") THEN p.category ELSE @]}
                       /\ Respond("menuitem_update", u, 200, {id})
                       /\ UNCHANGED <<categories, cart, orders, orderitems>>
    /\ UNCHANGED <<groups, nextId, demoMode, auth, today, workers, inflight>>

OrderItemCascade(items, id) == {oi \in items : oi.menuitem # id}

\* OrderItem.menuitem is on_delete=SET_NULL: the lines of a deleted menu
\* item stay, without the reference
OrderItemSetNull(items, id) ==
    {IF oi.menuitem = id THEN [oi EXCEPT !.menuitem = NoItem] ELSE oi : oi \in items}

\* Cart.menuitem is on_delete=CASCADE, OrderItem.menuitem is SET_NULL.
MenuItemDestroy(u, id) ==
    /\ FreeWorker
    /\ LET d == Denied(MenuPermissions, u, "DELETE")
           found == MenuItemById(id)
       IN IF d # 0
          THEN Respond("menuitem_destroy", u, d, {}) /\ UNCHANGED db
          ELSE IF found = {}
          THEN Respond("menuitem_destroy", u, 404, {}) /\ UNCHANGED db
          ELSE LET m == CHOOSE x \in found : TRUE
               IN IF DemoWriteDenied(m)
                  THEN Respond("menuitem_destroy", u, 403, {}) /\ UNCHANGED db
                  ELSE /\ menuitems' = menuitems \ {m}
                       /\ cart' = {c \in cart : c.menuitem # id}
                       /\ orderitems' = OrderItemSetNull(orderitems, id)
                       /\ Respond("menuitem_destroy", u, 200, {})
                       /\ UNCHANGED <<categories, orders>>
    /\ UNCHANGED <<groups, nextId, demoMode, auth, today, workers, inflight>>

(***************************************************************************)
(* Cart: CartViewSet, CartCreateSerializer, CartUpdateSerializer           *)
(***************************************************************************)
AllCartLines(u) == cart

\* CartViewSet.get_queryset: the requester's own lines
CartQueryset(u) == {c \in cart : c.user = u}

\* IntegerField(min_value=1, max_value=99)
QuantityValid(q) == q >= QTY_MIN /\ q <= QTY_MAX

NoDuplicateCheck(u, m) == TRUE

\* CartCreateSerializer.validate: the application-level duplicate check
CartCreateValidate(u, m) == ~\E c \in cart : c.user = u /\ c.menuitem = m

ForeignKeyOnly(u, m) == \E mi \in menuitems : mi.id = m

\* Cart.Meta.constraints: unique_user_menuitem, checked by the database at
\* insert; the foreign key to MenuItem is checked there too.
CartInsertAllowed(u, m) ==
    /\ ~\E c \in cart : c.user = u /\ c.menuitem = m
    /\ \E mi \in menuitems : mi.id = m

\* create(): get_serializer, is_valid.  A valid request goes on to
\* perform_create in a worker slot, holding the menu item as it was loaded.
CartCreateReq(u, m, q) ==
    /\ FreeWorker
    /\ LET d == Denied(CartPermissions, u, "POST")
           found == MenuItemById(m)
       IN IF d # 0
          THEN Respond("cart_create", u, d, {}) /\ UNCHANGED inflight
          ELSE IF found = {} \/ ~QuantityValid(q)
          THEN Respond("cart_create", u, 400, {}) /\ UNCHANGED inflight
          ELSE IF ~CartCreateValidate(u, m)
          THEN /\ RespondDetail("cart_create", u, 400, {}, "This item is already in your cart.")
               /\ UNCHANGED inflight
          ELSE /\ nextId.cart <= MaxCartId
               /\ inflight' = [inflight EXCEPT ![FreeSlot] =
                      [kind |-> "cart_create", pc |-> "insert", user |-> u,
                       menuitem |-> CHOOSE x \in found : TRUE, quantity |-> q]]
               /\ UNCHANGED resp
    /\ UNCHANGED <<db, groups, nextId, demoMode, auth, today, workers>>

\* perform_create -> CartCreateSerializer.create: Cart.objects.create(...).
\* create() passes only user, menuitem, quantity, unit_price and price, so
\* the is_demo=True that perform_create adds in demo mode is dropped and
\* the row keeps the field's default.
CartInsert(s) ==
    /\ inflight[s] # Idle
    /\ inflight[s].kind = "cart_create"
    /\ LET r == inflight[s]
       IN IF ~CartInsertAllowed(r.user, r.menuitem.id)
          THEN Respond("cart_create", r.user, 500, {}) /\ UNCHANGED <<cart, nextId>>
          ELSE /\ nextId.cart <= MaxCartId
               /\ cart' = cart \cup
                      {[id |-> nextId.cart, user |-> r.user, menuitem |-> r.menuitem.id,
                        quantity |-> r.quantity, unit_price |-> r.menuitem.price,
                        price |-> r.menuitem.price * r.quantity, is_demo |-> FALSE]}
               /\ nextId' = [nextId EXCEPT !.cart = @ + 1]
               /\ Respond("cart_create", r.user, 201, {nextId.cart})
    /\ inflight' = [inflight EXCEPT ![s] = Idle]
    /\ UNCHANGED <<categories, menuitems, orders, orderitems, groups, demoMode, auth, today, workers>>

CartLineQuantityOnly(c, q) == [c EXCEPT !.quantity = q]

\* CartUpdateSerializer.update: price is recomputed from the stored
\* unit_price
CartLineUpdated(c, q) == [c EXCEPT !.quantity = q, !.price = c.unit_price * q]

\* CustomRetrieveModelMixin.retrieve on CartViewSet
CartRetrieve(u, id) ==
    /\ FreeWorker
    /\ LET d == Denied(CartPermissions, u, "GET")
       IN IF d # 0
          THEN Respond("cart_retrieve", u, d, {})
          ELSE IF ~\E c \in CartQueryset(u) : c.id = id
          THEN Respond("cart_retrieve", u, 404, {})
          ELSE Respond("cart_retrieve", u, 200, {id})
    /\ UNCHANGED <<db, groups, nextId, demoMode, auth, today, workers, inflight>>

\* CustomListModelMixin.list on CartViewSet
CartList(u) ==
    /\ FreeWorker
    /\ LET d == Denied(CartPermissions, u, "GET")
       IN IF d # 0
          THEN Respond("cart_list", u, d, {})
          ELSE Respond("cart_list", u, 200, {c.id : c \in CartQueryset(u)})
    /\ UNCHANGED <<db, groups, nextId, demoMode, auth, today, workers, inflight>>

\* update / partial_update with CartUpdateSerializer
CartUpdate(u, id, q) ==
    /\ FreeWorker
    /\ LET d == Denied(CartPermissions, u, "PATCH")
           found == {c \in CartQueryset(u) : c.id = id}
       IN IF d # 0
          THEN Respond("cart_update", u, d, {}) /\ UNCHANGED cart
          ELSE IF found = {}
          THEN Respond("cart_update", u, 404, {}) /\ UNCHANGED cart
          ELSE LET c == CHOOSE x \in found : TRUE
               IN IF ~QuantityValid(q)
                  THEN Respond("cart_update", u, 400, {}) /\ UNCHANGED cart
                  ELSE IF DemoWriteDenied(c)
                  THEN Respond("cart_update", u, 403, {}) /\ UNCHANGED cart
                  ELSE /\ cart' = (cart \ {c}) \cup {CartLineUpdated(c, q)}
                       /\ Respond("cart_update", u, 200, {id})
    /\ UNCHANGED <<categories, menuitems, orders, orderitems, groups, nextId,
                   demoMode, auth, today, workers, inflight>>

CartDestroy(u, id) ==
    /\ FreeWorker
    /\ LET d == Denied(CartPermissions, u, "DELETE")
           found == {c \in CartQueryset(u) : c.id = id}
       IN IF d # 0
          THEN Respond("cart_destroy", u, d, {}) /\ UNCHANGED cart
          ELSE IF found = {}
          THEN Respond("cart_destroy", u, 404, {}) /\ UNCHANGED cart
          ELSE LET c == CHOOSE x \in found : TRUE
               IN IF DemoWriteDenied(c)
                  THEN Respond("cart_destroy", u, 403, {}) /\ UNCHANGED cart
                  ELSE /\ cart' = cart \ {c}
                       /\ Respond("cart_destroy", u, 200, {})
    /\ UNCHANGED <<categories, menuitems, orders, orderitems, groups, nextId,
                   demoMode, auth, today, workers, inflight>>

EveryCartLine(u) == cart

\* Cart.objects.filter(user=request.user)
UserCartLines(u) == {c \in cart : c.user = u}

\* clear_cart: an empty cart is answered at once, otherwise cart.delete()
clear_cart(u) ==
    /\ FreeWorker
    /\ LET d == Denied(CartPermissions, u, "DELETE")
       IN IF d # 0
          THEN Respond("cart_clear", u, d, {}) /\ UNCHANGED cart
          ELSE IF UserCartLines(u) = {}
          THEN /\ RespondDetail("cart_clear", u, 200, {}, "No items in cart. Nothing to clear.")
               /\ UNCHANGED cart
          ELSE /\ cart' = cart \ UserCartLines(u)
               /\ RespondDetail("cart_clear", u, 200, {}, "Cart cleared successfully.")
    /\ UNCHANGED <<categories, menuitems, orders, orderitems, groups, nextId,
                   demoMode, auth, today, workers, inflight>>

(***************************************************************************)
(* Orders: OrderViewSet                                                    *)
(***************************************************************************)
AllOrders(u) == orders

\* OrderViewSet.get_queryset: the orders visible to the requester's
\* primary role
OrderQueryset(u) ==
    IF user_role(u) = "manager" THEN orders
    ELSE IF user_role(u) = "delivery_crew" THEN {o \in orders : o.delivery_crew = u}
    ELSE IF user_role(u) = "customer" THEN {o \in orders : o.user = u}
    ELSE {}

OrderList(u) ==
    /\ FreeWorker
    /\ LET d == Denied(OrderPermissions("GET"), u, "GET")
       IN IF d # 0
          THEN Respond("order_list", u, d, {})
          ELSE Respond("order_list", u, 200, {o.id : o \in OrderQueryset(u)})
    /\ UNCHANGED <<db, groups, nextId, demoMode, auth, today, workers, inflight>>

OrderRetrieve(u, id) ==
    /\ FreeWorker
    /\ LET d == Denied(OrderPermissions("GET"), u, "GET")
       IN IF d # 0
          THEN Respond("order_retrieve", u, d, {})
          ELSE IF ~\E o \in OrderQueryset(u) : o.id = id
          THEN Respond("order_retrieve", u, 404, {})
          ELSE Respond("order_retrieve", u, 200, {id})
    /\ UNCHANGED <<db, groups, nextId, demoMode, auth, today, workers, inflight>>

(***************************************************************************)
(* OrderViewSet.create.  The statements inside `with transaction.atomic()` *)
(* write through the transaction: their rows are pending in the worker     *)
(* slot until the block is left, and are discarded when it is left by an   *)
(* exception.                                                              *)
(***************************************************************************)
NoTransaction == FALSE

\* Line 219: with transaction.atomic()
TransactionAtomic == TRUE

NoWrites == [orders |-> {}, items |-> {}, del |-> {}]

\* The tables after the pending writes w are applied
AppliedOrders(w) == {o \in orders : ~\E n \in w.orders : n.id = o.id} \cup w.orders
AppliedItems(w) == orderitems \cup w.items
AppliedCart(w) == {c \in cart : c.id \notin w.del}

\* One statement of the block: inside a transaction its writes join the
\* pending ones, without one they reach the tables at once.
Statement(s, r, w) ==
    IF TransactionAtomic
    THEN /\ inflight' = [inflight EXCEPT ![s] = [r EXCEPT !.w = w]]
         /\ UNCHANGED <<orders, orderitems, cart>>
    ELSE /\ inflight' = [inflight EXCEPT ![s] = [r EXCEPT !.w = NoWrites]]
         /\ orders' = AppliedOrders(w)
         /\ orderitems' = AppliedItems(w)
         /\ cart' = AppliedCart(w)

CartNeverEmpty(u) == FALSE

CartItemsOfAll(u) == cart

\* Line 208: cart_items = Cart.objects.filter(user=user), a lazy query that
\* reads the table each time it is evaluated
cart_items(u) == {c \in cart : c.user = u}

\* Line 209: not cart_items.exists()
CartEmpty(u) == cart_items(u) = {}

\* Lines 207-217: the empty-cart check, before the transaction
OrderCreateReq(u) ==
    /\ FreeWorker
    /\ LET d == Denied(OrderPermissions("POST"), u, "POST")
       IN IF d # 0
          THEN Respond("order_create", u, d, {}) /\ UNCHANGED inflight
          ELSE IF CartEmpty(u)
          THEN /\ RespondDetail("order_create", u, 400, {}, "Your cart is empty. Add items to your cart before placing an order.")
               /\ UNCHANGED inflight
          ELSE /\ nextId.order <= MaxOrderId
               /\ inflight' = [inflight EXCEPT ![FreeSlot] =
                      [kind |-> "order_create", pc |-> "insert", user |-> u,
                       order |-> {}, items |-> {}, total |-> 0, w |-> NoWrites,
                       before |-> <<orders, orderitems, cart>>]]
               /\ UNCHANGED resp
    /\ UNCHANGED <<db, groups, nextId, demoMode, auth, today, workers>>

AtOrderStep(s, pc) ==
    /\ inflight[s] # Idle
    /\ inflight[s].kind = "order_create"
    /\ inflight[s].pc = pc

\* Line 229 tests the bound method self._is_demo_mode_enabled without
\* calling it, and a bound method is true.
OrderDemoFlag == TRUE

\* Lines 221-230: Order.objects.create(user, total=0, date); the is_demo
\* flag is set on the instance and reaches the row with order.save().
OrderInsert(s) ==
    /\ AtOrderStep(s, "insert")
    /\ nextId.order <= MaxOrderId
    /\ LET r == inflight[s]
           row == [id |-> nextId.order, user |-> r.user, delivery_crew |-> NULL,
                   status |-> FALSE, total |-> 0, date |-> today, is_demo |-> FALSE]
       IN Statement(s, [r EXCEPT !.pc = "build",
                                 !.order = {[row EXCEPT !.is_demo = OrderDemoFlag]}],
                    [r.w EXCEPT !.orders = {row}])
    /\ nextId' = [nextId EXCEPT !.order = @ + 1]
    /\ UNCHANGED <<categories, menuitems, groups, demoMode, auth, today, workers, resp>>

OrderItemsAtMenuPrice(order, lines) ==
    {[order |-> order.id, menuitem |-> c.menuitem,
      item_title |-> (CHOOSE m \in menuitems : m.id = c.menuitem).title,
      quantity |-> c.quantity,
      unit_price |-> (CHOOSE m \in menuitems : m.id = c.menuitem).price,
      price |-> (CHOOSE m \in menuitems : m.id = c.menuitem).price * c.quantity]
     : c \in lines}

\* Lines 233-245: one OrderItem per cart line, copied from the cart line;
\* the title comes from the joined menu item.
OrderItemsFor(order, lines) ==
    {[order |-> order.id, menuitem |-> c.menuitem,
      item_title |-> (CHOOSE m \in menuitems : m.id = c.menuitem).title,
      quantity |-> c.quantity, unit_price |-> c.unit_price, price |-> c.price]
     : c \in lines}

\* OrderItem.Meta.constraints: uniq_order_menuitem_when_present
OrderItemsUnique(items) ==
    \A a, b \in items :
        (a.order = b.order /\ a.menuitem = b.menuitem /\ a.menuitem # NoItem) => a = b

\* Lines 233-248: build the order items from the cart and bulk_create them
OrderBuild(s) ==
    /\ AtOrderStep(s, "build")
    /\ LET r == inflight[s]
           order == CHOOSE o \in r.order : TRUE
           lines == cart_items(r.user)
           items == OrderItemsFor(order, lines)
       IN IF Cardinality(items) # Cardinality(lines) \/ ~OrderItemsUnique(items)
          THEN /\ inflight' = [inflight EXCEPT ![s] = Idle]
               /\ Respond("order_create", r.user, 500, {})
               /\ UNCHANGED <<orders, orderitems, cart>>
          ELSE /\ Statement(s, [r EXCEPT !.pc = "save", !.items = items,
                                         !.total = SumPrice(lines)],
                            [r.w EXCEPT !.items = items])
               /\ UNCHANGED resp
    /\ UNCHANGED <<categories, menuitems, groups, nextId, demoMode, auth, today, workers>>

\* Lines 251-252: order.total = total_order_price; order.save().  A total
\* beyond the field's six digits cannot be stored and raises.
OrderSave(s) ==
    /\ AtOrderStep(s, "save")
    /\ LET r == inflight[s]
           order == CHOOSE o \in r.order : TRUE
           saved == [order EXCEPT !.total = r.total]
       IN IF r.total > DECIMAL_MAX
          THEN /\ inflight' = [inflight EXCEPT ![s] = Idle]
               /\ Respond("order_create", r.user, 500, {})
               /\ UNCHANGED <<orders, orderitems, cart>>
          ELSE /\ Statement(s, [r EXCEPT !.pc = "clear", !.order = {saved}],
                            [r.w EXCEPT !.orders = {saved}])
               /\ UNCHANGED resp
    /\ UNCHANGED <<categories, menuitems, groups, nextId, demoMode, auth, today, workers>>

\* Line 255: cart_items.delete() deletes the requester's lines of that moment
OrderClearCart(s) ==
    /\ AtOrderStep(s, "clear")
    /\ LET r == inflight[s]
       IN Statement(s, [r EXCEPT !.pc = "commit"],
                    [r.w EXCEPT !.del = {c.id : c \in cart_items(r.user)}])
    /\ UNCHANGED <<categories, menuitems, groups, nextId, demoMode, auth, today, workers, resp>>

\* Leaving the atomic block commits; lines 257-263 return the order.
OrderCommit(s) ==
    /\ AtOrderStep(s, "commit")
    /\ LET r == inflight[s]
       IN /\ orders' = AppliedOrders(r.w)
          /\ orderitems' = AppliedItems(r.w)
          /\ cart' = AppliedCart(r.w)
          /\ Respond("order_create", r.user, 201, {o.id : o \in r.order})
    /\ inflight' = [inflight EXCEPT ![s] = Idle]
    /\ UNCHANGED <<categories, menuitems, groups, nextId, demoMode, auth, today, workers>>

\* A statement of the block raises (the database refuses it, the connection
\* drops, the process dies): the block is left by the exception and its
\* pending writes are rolled back.
OrderFail(s) ==
    /\ inflight[s] # Idle
    /\ inflight[s].kind = "order_create"
    /\ inflight[s].pc \in {"build", "save", "clear", "commit"}
    /\ inflight' = [inflight EXCEPT ![s] = Idle]
    /\ Respond("order_create", inflight[s].user, 500, {})
    /\ UNCHANGED <<db, groups, nextId, demoMode, auth, today, workers>>

(***************************************************************************)
(* Order update and delete                                                 *)
(***************************************************************************)
ManagerSerializerForAll(role) == "ManagerOrderUpdateSerializer"

\* OrderViewSet.WRITE_SERIALIZERS: the update serializer of a role (only
\* managers and couriers pass the permissions of an update)
WRITE_SERIALIZERS(role) ==
    IF role = "manager" THEN "ManagerOrderUpdateSerializer"
    ELSE "DeliveryCrewOrderUpdateSerializer"

\* get_serializer_class for update / partial_update
get_serializer_class(u) == WRITE_SERIALIZERS(user_role(u))

\* Meta.fields of the requester's update serializer
OrderWriteFields(u) ==
    IF get_serializer_class(u) = "ManagerOrderUpdateSerializer"
    THEN {"status", "delivery_crew"} ELSE {"status"}

\* StrictFieldsMixin.validate: no payload key outside the declared fields
StrictFields(p, fields) == DOMAIN p \subseteq fields

\* ManagerOrderUpdateSerializer: delivery_crew is null or a member of the
\* Delivery crew group; at least one declared field is supplied.
ManagerOrderUpdateValid(p) ==
    /\ (Has(p, "delivery_crew") /\ p.delivery_crew # NULL)
           => DELIVERY_CREW \in groups[p.delivery_crew]
    /\ DOMAIN p \cap {"status", "delivery_crew"} # {}
    /\ StrictFields(p, {"status", "delivery_crew"})

\* A serializer field declared without required=False: a full update must
\* carry it, a partial update need not
RequiredUnlessPartial(p, partial) ==
    /\ partial \/ Has(p, "status")
    /\ StrictFields(p, {"status"})

\* DeliveryCrewOrderUpdateSerializer: status = BooleanField() is required
\* by the field on a full update and by validate() on a partial one
DeliveryCrewOrderUpdateValid(p, partial) ==
    /\ partial \/ Has(p, "status")
    /\ ~(partial /\ ~Has(p, "status"))
    /\ StrictFields(p, {"status"})

OrderUpdateValid(u, p, partial) ==
    IF get_serializer_class(u) = "ManagerOrderUpdateSerializer"
    THEN ManagerOrderUpdateValid(p)
    ELSE DeliveryCrewOrderUpdateValid(p, partial)

StatusForwardOnly(o, p, fields) ==
    [o EXCEPT !.status = IF "status" \in fields /\ Has(p, "status")
                         THEN @ \/ p.status ELSE @,
              !.delivery_crew = IF "delivery_crew" \in fields /\ Has(p, "delivery_crew")
                                THEN p.delivery_crew ELSE @]

\* The first message of the ValidationError: field errors come before
\* validate(), whose own check comes before StrictFieldsMixin's
OrderUpdateError(u, p) ==
    IF get_serializer_class(u) = "ManagerOrderUpdateSerializer"
    THEN IF Has(p, "delivery_crew") /\ p.delivery_crew # NULL
            /\ DELIVERY_CREW \notin groups[p.delivery_crew]
         THEN "Invalid pk - object does not exist."
         ELSE IF DOMAIN p \cap {"status", "delivery_crew"} = {}
         THEN "Provide at least one of 'status' or 'delivery_crew'."
         ELSE "Unexpected field."
    ELSE IF ~Has(p, "status") THEN "This field is required."
         ELSE "Unexpected field."

\* ModelSerializer.update: the declared fields the payload carries are set
OrderUpdated(o, p, fields) ==
    [o EXCEPT !.status = IF "status" \in fields /\ Has(p, "status") THEN p.status ELSE @,
              !.delivery_crew = IF "delivery_crew" \in fields /\ Has(p, "delivery_crew")
                                THEN p.delivery_crew ELSE @]

\* CustomUpdateModelMixin.update on OrderViewSet; partial is TRUE for PATCH
\* (partial_update) and FALSE for PUT
OrderUpdateWith(u, id, p, partial) ==
    /\ FreeWorker
    /\ LET method == IF partial THEN "PATCH" ELSE "PUT"
           d == Denied(OrderPermissions(method), u, method)
           found == {o \in OrderQueryset(u) : o.id = id}
       IN IF d # 0
          THEN Respond("order_update", u, d, {}) /\ UNCHANGED orders
          ELSE IF found = {}
          THEN Respond("order_update", u, 404, {}) /\ UNCHANGED orders
          ELSE LET o == CHOOSE x \in found : TRUE
               IN IF ~OrderUpdateValid(u, p, partial)
                  THEN /\ RespondDetail("order_update", u, 400, {}, OrderUpdateError(u, p))
                       /\ UNCHANGED orders
                  ELSE IF DemoWriteDenied(o)
                  THEN Respond("order_update", u, 403, {}) /\ UNCHANGED orders
                  ELSE /\ orders' = (orders \ {o}) \cup {OrderUpdated(o, p, OrderWriteFields(u))}
                       /\ Respond("order_update", u, 200, {id})
    /\ UNCHANGED <<categories, menuitems, cart, orderitems, groups, nextId,
                   demoMode, auth, today, workers, inflight>>

\* PATCH /orders/{id}
OrderUpdate(u, id, p) == OrderUpdateWith(u, id, p, TRUE)

\* CustomUpdateModelMixin.update, statement by statement.  First half:
\* get_object() loads the row and is_valid() checks the payload against
\* the tables of that moment; the request then holds the loaded instance.
OrderUpdateReq(u, id, p, partial) ==
    /\ FreeWorker
    /\ LET method == IF partial THEN "PATCH" ELSE "PUT"
           d == Denied(OrderPermissions(method), u, method)
           found == {o \in OrderQueryset(u) : o.id = id}
       IN IF d # 0
          THEN Respond("order_update", u, d, {}) /\ UNCHANGED inflight
          ELSE IF found = {}
          THEN Respond("order_update", u, 404, {}) /\ UNCHANGED inflight
          ELSE IF ~OrderUpdateValid(u, p, partial)
          THEN /\ RespondDetail("order_update", u, 400, {}, OrderUpdateError(u, p))
               /\ UNCHANGED inflight
          ELSE /\ inflight' = [inflight EXCEPT ![FreeSlot] =
                      [kind |-> "order_update", pc |-> "save", user |-> u,
                       instance |-> CHOOSE x \in found : TRUE, payload |-> p,
                       fields |-> OrderWriteFields(u)]]
               /\ UNCHANGED resp
    /\ UNCHANGED <<db, groups, nextId, demoMode, auth, today, workers>>

\* serializer.save() -> ModelSerializer.update -> instance.save(): the
\* payload's fields are set on the loaded instance and Model.save(), called
\* without update_fields, writes every column of the instance to the row.
InstanceSaved(instance, p, fields) == OrderUpdated(instance, p, fields)

\* Second half: perform_update (DemoScopeMixin) and the response
OrderUpdateSave(s) ==
    /\ inflight[s] # Idle
    /\ inflight[s].kind = "order_update"
    /\ LET r == inflight[s]
       IN IF DemoWriteDenied(r.instance)
          THEN Respond("order_update", r.user, 403, {}) /\ UNCHANGED orders
          ELSE /\ orders' = {o \in orders : o.id # r.instance.id} \cup
                      {InstanceSaved(r.instance, r.payload, r.fields)}
               /\ Respond("order_update", r.user, 200, {r.instance.id})
    /\ inflight' = [inflight EXCEPT ![s] = Idle]
    /\ UNCHANGED <<categories, menuitems, cart, orderitems, groups, nextId,
                   demoMode, auth, today, workers>>

\* PUT /orders/{id}
OrderPut(u, id, p) == OrderUpdateWith(u, id, p, FALSE)

\* OrderItem.order is on_delete=CASCADE
OrderDestroy(u, id) ==
    /\ FreeWorker
    /\ LET d == Denied(OrderPermissions("DELETE"), u, "DELETE")
           found == {o \in OrderQueryset(u) : o.id = id}
       IN IF d # 0
          THEN Respond("order_destroy", u, d, {}) /\ UNCHANGED <<orders, orderitems>>
          ELSE IF found = {}
          THEN Respond("order_destroy", u, 404, {}) /\ UNCHANGED <<orders, orderitems>>
          ELSE LET o == CHOOSE x \in found : TRUE
               IN IF DemoWriteDenied(o)
                  THEN Respond("order_destroy", u, 403, {}) /\ UNCHANGED <<orders, orderitems>>
                  ELSE /\ orders' = orders \ {o}
                       /\ orderitems' = {oi \in orderitems : oi.order # id}
                       /\ Respond("order_destroy", u, 200, {})
    /\ UNCHANGED <<categories, menuitems, cart, groups, nextId,
                   demoMode, auth, today, workers, inflight>>

\* The date changes
Midnight ==
    /\ today < MaxDay
    /\ today' = today + 1
    /\ UNCHANGED <<db, groups, nextId, demoMode, auth, workers, inflight, resp>>

(***************************************************************************)
(* Demo accounts: DemoLoginView, DemoTokenRefreshView.  Times are minutes. *)
(***************************************************************************)
ACCESS_TOKEN_LIFETIME_MINUTES == 30
REFRESH_TOKEN_LIFETIME_HOURS == 168
DEMO_USER_TTL_HOURS == 12

\* SIMPLE_JWT["ACCESS_TOKEN_LIFETIME"], SIMPLE_JWT["REFRESH_TOKEN_LIFETIME"]
ACCESS_TOKEN_LIFETIME == ACCESS_TOKEN_LIFETIME_MINUTES
REFRESH_TOKEN_LIFETIME == REFRESH_TOKEN_LIFETIME_HOURS * 60

\* Role(role_input): the role slugs
ROLES == {"manager", "delivery_crew", "customer"}

\* role_enum.label: the group of a role, none for customer
RoleGroup(role) ==
    IF role = "manager" THEN {MANAGER}
    ELSE IF role = "delivery_crew" THEN {DELIVERY_CREW}
    ELSE {}

\* Token.set_exp(from_time=current_time, lifetime=...)
Token(jti, u, type, lifetime) ==
    [jti |-> jti, user |-> u, type |-> type, exp |-> clock + lifetime,
     blacklisted |-> FALSE]

\* timezone.now() moves on between requests
Tick(d) ==
    /\ clock + d <= MaxClock
    /\ clock' = clock + d
    /\ UNCHANGED <<db, groups, nextId, demoMode, users, tokens, today, workers,
                   inflight, resp>>

\* DemoLoginView.post: a new demo user with the role's group, a refresh
\* and an access token whose lifetimes are cut to the time the account has
DemoLogin(role) ==
    /\ FreeWorker
    /\ IF ~demoMode
       THEN /\ RespondDetail("demo_login", ANON, 403, {}, "Demo mode is disabled.")
            /\ UNCHANGED <<groups, users, tokens, nextId>>
       ELSE IF role \notin ROLES
       THEN /\ Respond("demo_login", ANON, 400, {})
            /\ UNCHANGED <<groups, users, tokens, nextId>>
       ELSE \E u \in DemoNames :
               LET demo_expires_at == clock + DEMO_USER_TTL_HOURS * 60
                   remaining == demo_expires_at - clock
               IN /\ ~users[u].created
                  /\ nextId.token + 1 <= MaxTokenId
                  /\ users' = [users EXCEPT ![u] =
                         [created |-> TRUE, is_staff |-> FALSE, is_demo |-> TRUE,
                          demo_expires_at |-> demo_expires_at]]
                  /\ groups' = [groups EXCEPT ![u] = RoleGroup(role)]
                  /\ tokens' = tokens \cup
                         {Token(nextId.token, u, "refresh",
                                Min({REFRESH_TOKEN_LIFETIME, remaining})),
                          Token(nextId.token + 1, u, "access",
                                Min({ACCESS_TOKEN_LIFETIME, remaining}))}
                  /\ nextId' = [nextId EXCEPT !.token = @ + 2]
                  /\ Respond("demo_login", u, 201, {nextId.token, nextId.token + 1})
    /\ UNCHANGED <<db, demoMode, clock, today, workers, inflight>>

\* DemoSafeTokenRefreshSerializer.validate: the refresh token must verify
\* (known, not expired, not blacklisted) and belong to a demo user whose
\* expiry is ahead; TokenRefreshSerializer.validate then issues an access
\* token, blacklists the refresh token and issues its successor.
DemoTokenRefresh(jti) ==
    /\ FreeWorker
    /\ LET found == {t \in tokens : t.jti = jti /\ t.type = "refresh"}
       IN IF found = {} \/ \E t \in found : t.exp <= clock \/ t.blacklisted
          THEN /\ Respond("demo_token_refresh", ANON, 401, {})
               /\ UNCHANGED <<tokens, nextId>>
          ELSE LET t == CHOOSE x \in found : TRUE
               IN IF ~(users[t.user].is_demo /\ users[t.user].demo_expires_at > clock)
                  THEN /\ RespondDetail("demo_token_refresh", t.user, 400, {},
                                         "Demo session expired.")
                       /\ UNCHANGED <<tokens, nextId>>
                  ELSE /\ nextId.token + 1 <= MaxTokenId
                       /\ tokens' = (tokens \ {t}) \cup
                              {[t EXCEPT !.blacklisted = TRUE],
                               Token(nextId.token, t.user, "access",
                                     ACCESS_TOKEN_LIFETIME),
                               Token(nextId.token + 1, t.user, "refresh",
                                     REFRESH_TOKEN_LIFETIME)}
                       /\ nextId' = [nextId EXCEPT !.token = @ + 2]
                       /\ Respond("demo_token_refresh", t.user, 200,
                                  {nextId.token, nextId.token + 1})
    /\ UNCHANGED <<db, groups, demoMode, clock, users, today, workers, inflight>>

(***************************************************************************)
(* Role groups: the Manager and the Delivery crew rosters.                 *)
(***************************************************************************)
\* User.id
UserPk(u) ==
    CASE u = "amy" -> 1 [] u = "ann" -> 2 [] u = "bob" -> 3
      [] u = "cat" -> 4 [] u = "dan" -> 5 [] u = "dem" -> 6

GroupPermissions(g) ==
    IF g = MANAGER
    THEN <<"IsAuthenticated", "IsManagerForReadOnlyOrAdminUser">>
    ELSE <<"IsAuthenticated", "IsManagerOrAdminUser">>

\* GroupMembershipViewSet.get_queryset: the users in the group
GroupQueryset(g) == {x \in Accounts : users[x].created /\ g \in groups[x]}

GroupOp(g, action) ==
    CASE g = MANAGER /\ action = "list" -> "manager_list"
      [] g = MANAGER /\ action = "retrieve" -> "manager_retrieve"
      [] g = MANAGER /\ action = "create" -> "manager_create"
      [] g = MANAGER /\ action = "destroy" -> "manager_destroy"
      [] g = DELIVERY_CREW /\ action = "list" -> "delivery_crew_list"
      [] g = DELIVERY_CREW /\ action = "retrieve" -> "delivery_crew_retrieve"
      [] g = DELIVERY_CREW /\ action = "create" -> "delivery_crew_create"
      [] g = DELIVERY_CREW /\ action = "destroy" -> "delivery_crew_destroy"

GroupList(u, g) ==
    /\ FreeWorker
    /\ LET d == Denied(GroupPermissions(g), u, "GET")
       IN IF d # 0
          THEN Respond(GroupOp(g, "list"), u, d, {})
          ELSE Respond(GroupOp(g, "list"), u, 200, {UserPk(x) : x \in GroupQueryset(g)})
    /\ UNCHANGED <<db, groups, nextId, demoMode, auth, today, workers, inflight>>

GroupRetrieve(u, g, target) ==
    /\ FreeWorker
    /\ LET d == Denied(GroupPermissions(g), u, "GET")
       IN IF d # 0
          THEN Respond(GroupOp(g, "retrieve"), u, d, {})
          ELSE IF target \notin GroupQueryset(g)
          THEN Respond(GroupOp(g, "retrieve"), u, 404, {})
          ELSE Respond(GroupOp(g, "retrieve"), u, 200, {UserPk(target)})
    /\ UNCHANGED <<db, groups, nextId, demoMode, auth, today, workers, inflight>>

\* CustomerListAPIView: the users in no group that are not superusers (the
\* admins of the model are the superusers)
CustomerList(u) ==
    /\ FreeWorker
    /\ LET d == Denied(<<"IsAuthenticated", "IsManagerOrAdminUser">>, u, "GET")
       IN IF d # 0
          THEN Respond("customer_list", u, d, {})
          ELSE Respond("customer_list", u, 200,
                       {UserPk(x) : x \in {y \in Accounts :
                            users[y].created /\ groups[y] = {} /\ ~users[y].is_staff}})
    /\ UNCHANGED <<db, groups, nextId, demoMode, auth, today, workers, inflight>>

\* GroupDemoGuardMixin.perform_create / perform_destroy: in demo mode only
\* demo users are added or removed
GroupDemoGuard(target) == demoMode /\ ~UserIsDemo(target)

\* GroupMembershipViewSet.create: UsernameLookupSerializer finds the user,
\* a member gives 409, otherwise perform_create adds the user
GroupCreate(u, g, username) ==
    /\ FreeWorker
    /\ LET d == Denied(GroupPermissions(g), u, "POST")
       IN IF d # 0
          THEN Respond(GroupOp(g, "create"), u, d, {}) /\ UNCHANGED groups
          ELSE IF ~users[username].created
          THEN Respond(GroupOp(g, "create"), u, 400, {}) /\ UNCHANGED groups
          ELSE IF username \in GroupQueryset(g)
          THEN Respond(GroupOp(g, "create"), u, 409, {}) /\ UNCHANGED groups
          ELSE IF GroupDemoGuard(username)
          THEN Respond(GroupOp(g, "create"), u, 403, {}) /\ UNCHANGED groups
          ELSE /\ groups' = [groups EXCEPT ![username] = @ \cup {g}]
               /\ Respond(GroupOp(g, "create"), u, 201, {})
    /\ UNCHANGED <<db, nextId, demoMode, auth, today, workers, inflight>>

\* GroupMembershipViewSet.destroy, as ManagerGroupViewSet inherits it
ManagerGroupDestroy(u, target) ==
    /\ FreeWorker
    /\ LET d == Denied(GroupPermissions(MANAGER), u, "DELETE")
       IN IF d # 0
          THEN Respond("manager_destroy", u, d, {}) /\ UNCHANGED groups
          ELSE IF target \notin GroupQueryset(MANAGER)
          THEN Respond("manager_destroy", u, 404, {}) /\ UNCHANGED groups
          ELSE IF GroupDemoGuard(target)
          THEN Respond("manager_destroy", u, 403, {}) /\ UNCHANGED groups
          ELSE /\ groups' = [groups EXCEPT ![target] = @ \ {MANAGER}]
               /\ Respond("manager_destroy", u, 200, {})
    /\ UNCHANGED <<db, nextId, demoMode, auth, today, workers, inflight>>

KeepAssignments(assigned) == {}

\* detail of a removal: it names the user and the group
RemovedDetail(target) ==
    CASE target = "amy" -> "User 'amy' successfully removed from the Delivery crew group."
      [] target = "ann" -> "User 'ann' successfully removed from the Delivery crew group."
      [] target = "bob" -> "User 'bob' successfully removed from the Delivery crew group."
      [] target = "cat" -> "User 'cat' successfully removed from the Delivery crew group."
      [] target = "dan" -> "User 'dan' successfully removed from the Delivery crew group."
      [] target = "dem" -> "User 'dem' successfully removed from the Delivery crew group."

\* Order.objects.filter(delivery_crew=user): the rows the update touches
OrdersAssignedTo(assigned) == {o \in orders : o.delivery_crew = assigned}

\* DeliveryCrewGroupViewSet.destroy, first half: get_object, then
\* Order.objects.filter(delivery_crew=user).update(delivery_crew=None)
DeliveryCrewDestroyReq(u, target) ==
    /\ FreeWorker
    /\ LET d == Denied(GroupPermissions(DELIVERY_CREW), u, "DELETE")
       IN IF d # 0
          THEN /\ Respond("delivery_crew_destroy", u, d, {})
               /\ UNCHANGED <<orders, inflight>>
          ELSE IF target \notin GroupQueryset(DELIVERY_CREW)
          THEN /\ Respond("delivery_crew_destroy", u, 404, {})
               /\ UNCHANGED <<orders, inflight>>
          ELSE /\ orders' = (orders \ OrdersAssignedTo(target)) \cup
                      {[o EXCEPT !.delivery_crew = NULL] : o \in OrdersAssignedTo(target)}
               /\ inflight' = [inflight EXCEPT ![FreeSlot] =
                      [kind |-> "delivery_crew_destroy", pc |-> "remove",
                       user |-> u, target |-> target, before |-> orders]]
               /\ UNCHANGED resp
    /\ UNCHANGED <<categories, menuitems, cart, orderitems, groups, nextId,
                   demoMode, auth, today, workers>>

\* DeliveryCrewGroupViewSet.destroy, second half: perform_destroy
DeliveryCrewRemove(s) ==
    /\ inflight[s] # Idle
    /\ inflight[s].kind = "delivery_crew_destroy"
    /\ LET r == inflight[s]
       IN IF GroupDemoGuard(r.target)
          THEN Respond("delivery_crew_destroy", r.user, 403, {}) /\ UNCHANGED groups
          ELSE /\ groups' = [groups EXCEPT ![r.target] = @ \ {DELIVERY_CREW}]
               /\ RespondDetail("delivery_crew_destroy", r.user, 200, {},
                                 RemovedDetail(r.target))
    /\ inflight' = [inflight EXCEPT ![s] = Idle]
    /\ UNCHANGED <<db, nextId, demoMode, auth, today, workers>>

(***************************************************************************)
(* Initial state: the groups exist, amy and ann are customers, bob is a    *)
(* courier, cat a manager; the catalog holds one category and one item.    *)
(***************************************************************************)
InitData ==
    /\ groups = [u \in Accounts |->
                    IF u = "bob" THEN {DELIVERY_CREW}
                    ELSE IF u = "cat" THEN {MANAGER} ELSE {}]
    /\ users = [u \in Accounts |->
                   [created |-> u \notin DemoNames, is_staff |-> u \in Admins,
                    is_demo |-> FALSE, demo_expires_at |-> 0]]
    /\ clock = 0
    /\ tokens = {}
    /\ categories = {[id |-> 1, slug |-> "mains", title |-> "Mains", is_demo |-> FALSE]}
    /\ menuitems = {[id |-> 1, title |-> "pizza", price |-> 250, category |-> 1,
                     is_demo |-> FALSE]}
    /\ cart = {}
    /\ orders = {}
    /\ orderitems = {}
    /\ nextId = [category |-> 2, menuitem |-> 2, cart |-> 1, order |-> 1, token |-> 1]
    /\ today = 1
    /\ inflight = [s \in Slots |-> Idle]
    /\ resp = [op |-> "none", user |-> ANON, status |-> 0, data |-> {}, detail |-> ""]

Init ==
    /\ InitData
    /\ demoMode \in BOOLEAN
    /\ workers = 1

(***************************************************************************)
(* Placing orders: the manager edits the menu, customers fill their carts  *)
(* and place orders.  One request at a time.                               *)
(***************************************************************************)
Pasta == [title |-> "pasta", price |-> PRICE_MAX, category |-> 1]

Next ==
    \/ MenuItemCreate("cat", Pasta)
    \/ \E id \in MenuIds, p \in {250, PRICE_MAX} :
           MenuItemUpdate("cat", id, [price |-> p], TRUE)
    \/ \E u \in {"amy", "ann"}, m \in MenuIds : CartCreateReq(u, m, 2)
    \/ \E s \in Slots : CartInsert(s)
    \/ \E u \in Requesters : OrderCreateReq(u)
    \/ \E s \in Slots : OrderInsert(s)
    \/ \E s \in Slots : OrderBuild(s)
    \/ \E s \in Slots : OrderSave(s)
    \/ \E s \in Slots : OrderClearCart(s)
    \/ \E s \in Slots : OrderCommit(s)
    \/ \E s \in Slots : OrderFail(s)

Spec == Init /\ [][Next]_vars

\* The order creation in slot s ends in an error after its order row was
\* inserted
OrderCreateFailed(s) ==
    /\ inflight[s] # Idle
    /\ inflight[s].kind = "order_create"
    /\ inflight[s].pc # "insert"
    /\ inflight'[s] = Idle
    /\ resp'.op = "order_create" /\ resp'.status = 500

\* C1: an order creation that fails after the order row was inserted (at
\* the bulk insert of the lines, the update of the total or the deletion of
\* the cart) leaves orders, order lines and carts as they were when the
\* request arrived.
C1_OrderCreateAllOrNothing ==
    [][\A s \in Slots :
          OrderCreateFailed(s) => <<orders', orderitems', cart'>> = inflight[s].before]_vars

\* A creation failed after an order id was drawn: no order exists, the cart
\* still holds its lines.
C1_Witness ==
    /\ resp.op = "order_create" /\ resp.status = 500
    /\ nextId.order > 1
    /\ orders = {} /\ orderitems = {}
    /\ \E c \in cart : c.user = resp.user

\* The order creation in slot s commits
OrderCreated(s) ==
    /\ inflight[s] # Idle
    /\ inflight[s].kind = "order_create"
    /\ inflight'[s] = Idle
    /\ resp'.op = "order_create" /\ resp'.status = 201

\* The order line i is the copy of the cart line c in the order o
CopiedLine(i, c, o) ==
    /\ i.order = o.id
    /\ i.menuitem = c.menuitem
    /\ i.quantity = c.quantity
    /\ i.unit_price = c.unit_price
    /\ i.price = c.price

\* C2: a successful order creation for a customer whose cart holds N >= 1
\* lines adds exactly one order (owned by the customer, pending, without
\* courier, total = sum of the cart lines' price) and exactly N order lines,
\* one per cart line with that line's menuitem, quantity, unit_price and
\* price; afterwards the customer's cart is empty.
C2_OrderFromCart ==
    [][\A s \in Slots :
          OrderCreated(s) =>
              LET u == inflight[s].user
                  lines == {c \in inflight[s].before[3] : c.user = u}
                  newOrders == orders' \ orders
                  newItems == orderitems' \ orderitems
              IN /\ Cardinality(lines) >= 1
                 /\ orders \subseteq orders'
                 /\ orderitems \subseteq orderitems'
                 /\ Cardinality(newOrders) = 1
                 /\ \A o \in newOrders :
                        /\ o.user = u
                        /\ o.status = FALSE
                        /\ o.delivery_crew = NULL
                        /\ o.total = SumPrice(lines)
                        /\ resp'.data = {o.id}
                        /\ Cardinality(newItems) = Cardinality(lines)
                        /\ \A c \in lines :
                               Cardinality({i \in newItems : CopiedLine(i, c, o)}) = 1
                 /\ {c \in cart' : c.user = u} = {}]_vars

\* An order of two lines was just created, one of them for an item whose
\* price has changed since the line was added to the cart.
C2_Witness ==
    /\ resp.op = "order_create" /\ resp.status = 201
    /\ \E o \in orders :
           /\ o.id \in resp.data
           /\ Cardinality({i \in orderitems : i.order = o.id}) = 2
           /\ \E i \in orderitems, m \in menuitems :
                  i.order = o.id /\ m.id = i.menuitem /\ m.price # i.unit_price

\* C3: an order creation by a customer whose cart is empty is rejected and
\* changes nothing: no order, no order line, no other row, no counter.
C3_EmptyCartRejected ==
    [][\A u \in Users :
          (OrderCreateReq(u) /\ IsCustomer(u) /\ ~\E c \in cart : c.user = u)
              => /\ resp'.status = 400
                 /\ UNCHANGED <<db, nextId, groups, inflight>>]_vars

\* A customer with an empty cart was just refused.
C3_Witness ==
    /\ resp.op = "order_create" /\ resp.status = 400
    /\ resp.user \in Users
    /\ IsCustomer(resp.user)
    /\ ~\E c \in cart : c.user = resp.user
    /\ menuitems # {}

(***************************************************************************)
(* Carts: customers add, change and remove cart lines while the manager    *)
(* creates, reprices and deletes menu items.  One request at a time.       *)
(***************************************************************************)
AddQuantities == {QTY_MIN, QTY_MAX, QTY_MAX + 1}
UpdateQuantities == {QTY_MIN - 1, 2, QTY_MAX}

NextCart ==
    \/ MenuItemCreate("cat", Pasta)
    \/ \E id \in MenuIds, p \in {250, PRICE_MAX} :
           MenuItemUpdate("cat", id, [price |-> p], TRUE)
    \/ \E id \in MenuIds : MenuItemDestroy("cat", id)
    \/ \E u \in {"amy", "ann"}, m \in MenuIds, q \in AddQuantities : CartCreateReq(u, m, q)
    \/ \E s \in Slots : CartInsert(s)
    \/ \E u \in {"amy", "ann"}, id \in CartIds, q \in UpdateQuantities : CartUpdate(u, id, q)
    \/ \E u \in {"amy", "ann"}, id \in CartIds : CartDestroy(u, id)
    \/ \E u \in {"amy", "ann"} : clear_cart(u)

SpecCart == Init /\ [][NextCart]_vars

\* C7: in every state every cart line has price = unit_price * quantity and
\* a quantity in 1..99; a line is added with the menu item's price of that
\* moment as unit_price, and no later step (quantity update, menu price
\* change) changes the unit_price of a line.
C7_CartLinePrice ==
    /\ [](\A c \in cart :
             /\ c.price = c.unit_price * c.quantity
             /\ c.quantity >= QTY_MIN /\ c.quantity <= QTY_MAX)
    /\ [][\A c \in cart' :
             IF \E b \in cart : b.id = c.id
             THEN \A b \in cart : b.id = c.id => c.unit_price = b.unit_price
             ELSE \E m \in menuitems : m.id = c.menuitem /\ c.unit_price = m.price]_vars

\* A line whose quantity was just updated and whose menu item has been
\* repriced since it was added.
C7_Witness ==
    /\ resp.op = "cart_update" /\ resp.status = 200
    /\ \E c \in cart, m \in menuitems :
           /\ c.id \in resp.data
           /\ m.id = c.menuitem
           /\ m.price # c.unit_price
           /\ c.quantity = QTY_MAX

\* At most one cart line per (user, menu item)
UniqueUserMenuitem ==
    \A a, b \in cart : (a.user = b.user /\ a.menuitem = b.menuitem) => a = b

\* C8: adding a menu item that is already in the requester's cart is
\* rejected (as a duplicate when the request is otherwise valid) and
\* changes no cart line; every cart holds one line per menu item at most.
C8_DuplicateRejected ==
    /\ []UniqueUserMenuitem
    /\ [][\A c \in cart, q \in AddQuantities :
             (IsCustomer(c.user) /\ CartCreateReq(c.user, c.menuitem, q))
             => /\ resp'.status = 400
                /\ QuantityValid(q) => resp'.detail = "This item is already in your cart."
                /\ UNCHANGED <<cart, inflight, nextId>>]_vars

\* A duplicate was just refused and the line of that item is still the
\* only one in the requester's cart.
C8_Witness ==
    /\ resp.op = "cart_create" /\ resp.status = 400
    /\ resp.detail = "This item is already in your cart."
    /\ Cardinality({c \in cart : c.user = resp.user}) = 1
    /\ Cardinality(menuitems) = 1

(***************************************************************************)
(* Racing cart requests: two workers serve requests at the same time, so   *)
(* two additions can both pass validation before either inserts.           *)
(***************************************************************************)
InitRace ==
    /\ InitData
    /\ demoMode = FALSE
    /\ workers = MaxWorkers

NextRace ==
    \/ MenuItemCreate("cat", Pasta)
    \/ \E u \in {"amy", "ann"}, m \in MenuIds, q \in {QTY_MIN, 2} : CartCreateReq(u, m, q)
    \/ \E s \in Slots : CartInsert(s)
    \/ \E u \in {"amy", "ann"} : clear_cart(u)

SpecRace == InitRace /\ [][NextRace]_vars


\* C9: when two additions of the same (user, menu item) have both passed
\* the duplicate check, the insert that comes second fails and adds no
\* line; no state holds two lines of one (user, menu item).
C9_ConcurrentDuplicate ==
    /\ []UniqueUserMenuitem
    /\ [][\A s \in Slots :
             (/\ inflight[s] # Idle
              /\ \E c \in cart : c.user = inflight[s].user
                                 /\ c.menuitem = inflight[s].menuitem.id
              /\ CartInsert(s))
             => resp'.status = 500 /\ cart' = cart]_vars

\* The second of two racing additions has just failed: the first one's
\* line is in the cart.
C9_Witness ==
    /\ resp.op = "cart_create" /\ resp.status = 500
    /\ Cardinality({c \in cart : c.user = resp.user}) = 1
    /\ Cardinality(cart) = 1
    /\ Busy = {}

(***************************************************************************)
(* Order access: customers place orders of one line, the manager assigns   *)
(* couriers and deletes orders, everybody lists, reads and tries to update *)
(* orders.  One request at a time.                                         *)
(***************************************************************************)
NextAccess ==
    \/ \E u \in {"amy", "ann"} : CartCreateReq(u, 1, QTY_MIN)
    \/ \E s \in Slots : CartInsert(s)
    \/ \E u \in {"amy", "ann"} : OrderCreateReq(u)
    \/ \E s \in Slots : OrderInsert(s)
    \/ \E s \in Slots : OrderBuild(s)
    \/ \E s \in Slots : OrderSave(s)
    \/ \E s \in Slots : OrderClearCart(s)
    \/ \E s \in Slots : OrderCommit(s)
    \/ \E u \in Requesters : OrderList(u)
    \/ \E u \in Requesters, id \in OrderIds : OrderRetrieve(u, id)
    \/ \E u \in Users, id \in OrderIds, p \in OrderPayloads : OrderUpdate(u, id, p)
    \/ \E id \in OrderIds : OrderDestroy("cat", id)
    \/ Midnight

SpecAccess == Init /\ [][NextAccess]_vars

\* The orders the requester may see, from the groups the requester is in
VisibleOrders(u) ==
    IF MANAGER \in groups[u] THEN orders
    ELSE IF DELIVERY_CREW \in groups[u] THEN {o \in orders : o.delivery_crew = u}
    ELSE {o \in orders : o.user = u}

\* C4: a list of orders returns exactly the orders the requester's primary
\* role may see (manager: all; delivery_crew: those assigned to the
\* requester; customer: the requester's own), and a retrieval returns an
\* order only if it is one of them.
C4_OrderVisibility ==
    [][\A u \in Users :
          /\ (resp'.op = "order_list" /\ OrderList(u))
                 => resp'.status = 200 /\ resp'.data = {o.id : o \in VisibleOrders(u)}
          /\ \A id \in OrderIds :
                 (resp'.op = "order_retrieve" /\ OrderRetrieve(u, id))
                     => IF \E o \in VisibleOrders(u) : o.id = id
                        THEN resp'.status = 200 /\ resp'.data = {id}
                        ELSE resp'.status = 404 /\ resp'.data = {}]_vars

\* The courier just listed the orders and got some, but not all of them.
C4_Witness ==
    /\ resp.op = "order_list" /\ resp.status = 200
    /\ resp.user = "bob"
    /\ resp.data # {}
    /\ resp.data # {o.id : o \in orders}

\* The order o2 is the order o with at most the given fields changed
SameOrderExcept(o, o2, fields) ==
    /\ o2.id = o.id /\ o2.user = o.user /\ o2.total = o.total
    /\ o2.date = o.date /\ o2.is_demo = o.is_demo
    /\ "status" \in fields \/ o2.status = o.status
    /\ "delivery_crew" \in fields \/ o2.delivery_crew = o.delivery_crew

\* C5: an order update by a requester whose role is delivery_crew succeeds
\* only on an order assigned to the requester and changes nothing but that
\* order's status; an update by a manager changes nothing but the status
\* and delivery_crew of the addressed order.  Order lines and all other
\* orders stay as they are.
C5_OrderUpdateFrame ==
    [][\A u \in Users, id \in OrderIds, p \in OrderPayloads :
          (resp'.op = "order_update" /\ resp'.status = 200 /\ resp'.user = u
              /\ OrderUpdate(u, id, p))
          => /\ user_role(u) \in {"manager", "delivery_crew"}
             /\ \E o \in orders, o2 \in orders' :
                    /\ o.id = id
                    /\ orders' \ {o2} = orders \ {o}
                    /\ user_role(u) = "delivery_crew" => o.delivery_crew = u
                    /\ SameOrderExcept(o, o2, IF user_role(u) = "manager"
                                              THEN {"status", "delivery_crew"}
                                              ELSE {"status"})
             /\ UNCHANGED <<orderitems, cart, menuitems, categories, groups>>]_vars

\* The courier has just delivered the order assigned to him; another order
\* is not assigned to him.
C5_Witness ==
    /\ resp.op = "order_update" /\ resp.status = 200
    /\ resp.user = "bob"
    /\ \E o \in orders :
           o.id \in resp.data /\ o.status = TRUE /\ o.delivery_crew = "bob"
    /\ \E o \in orders : o.delivery_crew # "bob" /\ o.status = FALSE

(***************************************************************************)
(* Order history: after orders are placed the manager renames, reprices    *)
(* and deletes menu items and categories and the customer keeps using the  *)
(* cart.  One request at a time.                                           *)
(***************************************************************************)
CatalogAndCartSteps ==
    \/ MenuItemCreate("cat", Pasta)
    \/ \E id \in MenuIds, p \in {[title |-> "salad"], [price |-> PRICE_MAX]} :
           MenuItemUpdate("cat", id, p, TRUE)
    \/ \E id \in MenuIds : MenuItemDestroy("cat", id)
    \/ CategoryUpdate("cat", "mains", [title |-> "Sides"], TRUE)
    \/ CategoryDestroy("cat", "mains")
    \/ \E m \in MenuIds : CartCreateReq("amy", m, QTY_MIN)
    \/ \E s \in Slots : CartInsert(s)
    \/ \E id \in CartIds : CartUpdate("amy", id, QTY_MAX)
    \/ \E id \in CartIds : CartDestroy("amy", id)
    \/ clear_cart("amy")

NextHistory ==
    \/ CatalogAndCartSteps
    \/ OrderCreateReq("amy")
    \/ \E s \in Slots : OrderInsert(s)
    \/ \E s \in Slots : OrderBuild(s)
    \/ \E s \in Slots : OrderSave(s)
    \/ \E s \in Slots : OrderClearCart(s)
    \/ \E s \in Slots : OrderCommit(s)

SpecHistory == Init /\ [][NextHistory]_vars

\* The order line j is the order line i, possibly without its menu item
SameLine(i, j) ==
    /\ j.order = i.order
    /\ j.item_title = i.item_title
    /\ j.quantity = i.quantity
    /\ j.unit_price = i.unit_price
    /\ j.price = i.price
    /\ j.menuitem \in {i.menuitem, NoItem}

\* C10: no menu-item update or deletion, category change or cart operation
\* changes an existing order (its total included) or the item_title,
\* quantity, unit_price or price of an order line; no order line is removed
\* or added, and a line's menuitem changes only to null, when its menu item
\* is deleted.
C10_OrderHistoryKept ==
    [][CatalogAndCartSteps
          => /\ orders' = orders
             /\ Cardinality(orderitems') = Cardinality(orderitems)
             /\ \A i \in orderitems :
                    /\ \E j \in orderitems' : SameLine(i, j)
                    /\ (i \notin orderitems')
                           => /\ resp'.op = "menuitem_destroy"
                              /\ i.menuitem \notin {m.id : m \in menuitems'}]_vars

\* The menu item of an order line has just been deleted after it had been
\* renamed or repriced: the line is kept with its title and price of the
\* time of the order.
C10_Witness ==
    /\ resp.op = "menuitem_destroy" /\ resp.status \in {200, 204}
    /\ \E i \in orderitems :
           /\ i.menuitem = NoItem
           /\ i.item_title = "pizza" /\ i.unit_price = 250
           /\ \E o \in orders : o.id = i.order /\ o.total = SumPrice({i})
    /\ \E i \in orderitems, m \in menuitems :
           i.menuitem = m.id /\ (m.title # i.item_title \/ m.price # i.unit_price)

(***************************************************************************)
(* Role checks: every user sends every kind of write request, with one     *)
(* payload each.  One request at a time.                                   *)
(***************************************************************************)
Sides == [slug |-> "sides", title |-> "Sides"]

CatalogWrite(u) ==
    \/ CategoryCreate(u, Sides)
    \/ CategoryUpdate(u, "sides", [title |-> "Starters"], TRUE)
    \/ CategoryDestroy(u, "sides")
    \/ MenuItemCreate(u, Pasta)
    \/ MenuItemUpdate(u, 1, [price |-> PRICE_MAX], TRUE)
    \/ MenuItemDestroy(u, 2)

CartWrite(u) ==
    \/ CartCreateReq(u, 1, QTY_MIN)
    \/ CartUpdate(u, 1, 2)
    \/ CartDestroy(u, 2)
    \/ clear_cart(u)

OrderWrite(u) ==
    \/ OrderUpdate(u, 1, [status |-> TRUE])
    \/ OrderDestroy(u, 2)

\* A customer, a courier and a manager
RoleUsers == {"amy", "bob", "cat"}

NextDeny ==
    \/ \E u \in RoleUsers : CatalogWrite(u)
    \/ \E u \in RoleUsers : CartWrite(u)
    \/ \E s \in Slots : CartInsert(s)
    \/ \E u \in RoleUsers : OrderCreateReq(u)
    \/ \E s \in Slots : OrderInsert(s)
    \/ \E s \in Slots : OrderBuild(s)
    \/ \E s \in Slots : OrderSave(s)
    \/ \E s \in Slots : OrderClearCart(s)
    \/ \E s \in Slots : OrderCommit(s)
    \/ \E u \in RoleUsers : OrderWrite(u)

SpecDeny == Init /\ [][NextDeny]_vars

\* The request is refused for lack of permission and no row changes
Refused ==
    /\ resp'.status = 403
    /\ UNCHANGED <<categories, menuitems, cart, orders, orderitems, nextId, inflight>>

\* C6: a write request whose role requirement fails is refused and changes
\* no menu item, category, cart line, order or order line: a catalog write
\* of a user outside the Manager group, a cart operation or order creation
\* of a user in the Manager or Delivery crew group, an order update of a
\* customer, an order deletion of a user outside the Manager group.
C6_RoleDeniedWrites ==
    [][\A u \in RoleUsers :
          (resp'.user = u \/ inflight' # inflight) =>
          /\ (MANAGER \notin groups[u] /\ CatalogWrite(u)) => Refused
          /\ (groups[u] \cap {MANAGER, DELIVERY_CREW} # {}
                 /\ (CartWrite(u) \/ OrderCreateReq(u))) => Refused
          /\ (groups[u] \cap {MANAGER, DELIVERY_CREW} = {}
                 /\ OrderUpdate(u, 1, [status |-> TRUE])) => Refused
          /\ (MANAGER \notin groups[u] /\ OrderDestroy(u, 2)) => Refused]_vars

\* The courier was just refused the deletion of an order while orders, a
\* cart line and a second menu item exist.
C6_Witness ==
    /\ resp.op = "order_destroy" /\ resp.status = 403
    /\ resp.user = "bob"
    /\ orders # {} /\ orderitems # {} /\ cart # {}
    /\ Cardinality(menuitems) = 2


(***************************************************************************)
(* Catalog prices: the manager creates, replaces (PUT), patches (PATCH)    *)
(* and deletes menu items, with prices at and around the limits.           *)
(***************************************************************************)
PriceInputs == {0 - 1, 0, 1, PRICE_MAX, PRICE_MAX + 1}

\* The body of a full write of a menu item
ItemPayload(t, p) == [title |-> t, price |-> p, category |-> 1]

NextCatalog ==
    \/ \E p \in PriceInputs : MenuItemCreate("cat", ItemPayload("pasta", p))
    \/ \E id \in MenuIds, p \in PriceInputs : MenuItemUpdate("cat", id, [price |-> p], TRUE)
    \/ \E id \in MenuIds, p \in PriceInputs :
           MenuItemUpdate("cat", id, ItemPayload("salad", p), FALSE)
    \/ \E id \in MenuIds : MenuItemDestroy("cat", id)

SpecCatalog == Init /\ [][NextCatalog]_vars

\* The price is in (0, 100.00]
PriceInRange(p) == 0 < p /\ p <= PRICE_MAX

\* The item with this id is stored with this price
StoredPrice(items, id, p) == \E m \in items : m.id = id /\ m.price = p

\* The outcome the price of a write decides: out of range, the request is
\* refused and the catalog stays; in range, with the other fields valid and
\* the row writable, the price is stored.
PriceDecides(p, refusedElse, stored) ==
    IF ~PriceInRange(p)
    THEN /\ resp'.status = 400 /\ UNCHANGED menuitems
         /\ resp'.detail = IF p <= 0 THEN "Must be a positive number."
                           ELSE "Must not exceed 100.00."
    ELSE refusedElse \/ (resp'.status \in {200, 201} /\ stored)

\* C11: a menu item creation or (full or partial) update with a price <= 0
\* or > 100.00 is refused and leaves the catalog as it is, one with a price
\* in (0, 100.00] is accepted and stored; every menu item has a price in
\* (0, 100.00] in every state.
C11_MenuPriceRange ==
    /\ [](\A m \in menuitems : PriceInRange(m.price))
    /\ [][\A p \in PriceInputs :
             /\ (resp'.op = "menuitem_create"
                     /\ MenuItemCreate("cat", ItemPayload("pasta", p)))
                    => PriceDecides(p, \E m \in menuitems : m.title = "pasta",
                                    StoredPrice(menuitems', nextId.menuitem, p))
             /\ \A id \in {m.id : m \in menuitems} :
                    /\ (resp'.op = "menuitem_update"
                            /\ MenuItemUpdate("cat", id, [price |-> p], TRUE))
                           => PriceDecides(p, \E m \in menuitems : m.id = id /\ DemoWriteDenied(m),
                                           StoredPrice(menuitems', id, p))
                    /\ (resp'.op = "menuitem_update"
                            /\ MenuItemUpdate("cat", id, ItemPayload("salad", p), FALSE))
                           => PriceDecides(p, \E m \in menuitems :
                                                  \/ m.id = id /\ DemoWriteDenied(m)
                                                  \/ m.id # id /\ m.title = "salad",
                                           StoredPrice(menuitems', id, p))]_vars

\* An update was just refused while one item carries the highest price
\* allowed and another the lowest.
C11_Witness ==
    /\ resp.op = "menuitem_update" /\ resp.status = 400
    /\ resp.detail = "Must not exceed 100.00."
    /\ \E m \in menuitems : m.price = PRICE_MAX
    /\ \E m \in menuitems : m.price = 1


(***************************************************************************)
(* Rosters: everybody tries the Manager and Delivery crew endpoints while  *)
(* a customer places orders and the manager assigns a courier.  One        *)
(* request at a time.                                                      *)
(***************************************************************************)
GroupRequesters == {"amy", "bob", "cat", "dan", ANON}
GroupTargets == {"amy", "bob", "dem"}

NextGroups ==
    \/ \E u \in GroupRequesters, g \in STAFF_GROUPS : GroupList(u, g)
    \/ \E u \in GroupRequesters, g \in STAFF_GROUPS, t \in GroupTargets :
           GroupRetrieve(u, g, t)
    \/ \E u \in GroupRequesters, g \in STAFF_GROUPS, t \in GroupTargets :
           GroupCreate(u, g, t)
    \/ \E u \in GroupRequesters, t \in GroupTargets : ManagerGroupDestroy(u, t)
    \/ \E u \in GroupRequesters, t \in GroupTargets : DeliveryCrewDestroyReq(u, t)
    \/ \E s \in Slots : DeliveryCrewRemove(s)
    \/ CartCreateReq("amy", 1, QTY_MIN)
    \/ \E s \in Slots : CartInsert(s)
    \/ OrderCreateReq("amy")
    \/ \E s \in Slots : OrderInsert(s)
    \/ \E s \in Slots : OrderBuild(s)
    \/ \E s \in Slots : OrderSave(s)
    \/ \E s \in Slots : OrderClearCart(s)
    \/ \E s \in Slots : OrderCommit(s)
    \/ \E id \in OrderIds : OrderUpdate("cat", id, [delivery_crew |-> "bob"])
    \/ \E u \in {"amy", "bob"} : OrderList(u)

SpecGroups == Init /\ [][NextGroups]_vars


\* The roles the claim gives for a membership in the two groups
RolesByMembership(g) ==
    IF MANAGER \in g /\ DELIVERY_CREW \in g THEN <<"manager", "delivery_crew">>
    ELSE IF MANAGER \in g THEN <<"manager">>
    ELSE IF DELIVERY_CREW \in g THEN <<"delivery_crew">>
    ELSE <<"customer">>

\* The orders a primary role sees
OrdersOfRole(role, u) ==
    IF role = "manager" THEN orders
    ELSE IF role = "delivery_crew" THEN {o \in orders : o.delivery_crew = u}
    ELSE {o \in orders : o.user = u}

RolesResolved ==
    \A u \in Users :
        LET roles == resolve_user_roles(u)
        IN /\ roles # <<>>
           /\ roles = RolesByMembership(groups[u])
           /\ (\E i \in 1..Len(roles) : roles[i] = "customer") => Len(roles) = 1
           /\ user_role(u) = roles[1]
           /\ OrderQueryset(u) = OrdersOfRole(roles[1], u)
           /\ get_serializer_class(u) =
                  IF roles[1] = "manager" THEN "ManagerOrderUpdateSerializer"
                  ELSE "DeliveryCrewOrderUpdateSerializer"

\* C12: resolve_user_roles returns a non-empty list fixed by the group
\* membership alone: [manager], [delivery_crew], [manager, delivery_crew] in
\* that order, or [customer] for a member of neither group; customer never
\* comes with another role; the first element is the primary role that
\* decides which orders a list returns and which update serializer is used.
C12_RolesFromGroups ==
    /\ []RolesResolved
    /\ [][\A u \in {"amy", "bob"} :
            (resp'.op = "order_list" /\ resp'.user = u /\ OrderList(u))
                => /\ resp'.status = 200
                   /\ resp'.data =
                          {o.id : o \in OrdersOfRole(RolesByMembership(groups[u])[1], u)}]_vars

\* bob is in both groups and his list shows an order that is neither his
\* nor assigned to him
C12_Witness ==
    /\ groups["bob"] = STAFF_GROUPS
    /\ resp.op = "order_list" /\ resp.user = "bob" /\ resp.status = 200
    /\ \E o \in orders : o.id \in resp.data /\ o.user # "bob" /\ o.delivery_crew # "bob"
    /\ \E o \in orders : o.delivery_crew = "bob"


(***************************************************************************)
(* Order updates: customers place orders of one line; a customer, the      *)
(* courier and the manager send full (PUT) and partial (PATCH) updates.    *)
(* One request at a time.                                                  *)
(***************************************************************************)
EmptyPayload == [f \in {} |-> TRUE]

UpdatePayloads ==
    {EmptyPayload, [total |-> 0], [status |-> TRUE, total |-> 0]}
    \cup {[status |-> b] : b \in BOOLEAN}
    \cup {[delivery_crew |-> x] : x \in {"bob", NULL}}
    \cup {[status |-> FALSE, delivery_crew |-> NULL]}

NextUpdate ==
    \/ \E u \in {"amy", "ann"} : CartCreateReq(u, 1, QTY_MIN)
    \/ \E s \in Slots : CartInsert(s)
    \/ \E u \in {"amy", "ann"} : OrderCreateReq(u)
    \/ \E s \in Slots : OrderInsert(s)
    \/ \E s \in Slots : OrderBuild(s)
    \/ \E s \in Slots : OrderSave(s)
    \/ \E s \in Slots : OrderClearCart(s)
    \/ \E s \in Slots : OrderCommit(s)
    \/ \E u \in {"amy", "bob", "cat"}, id \in OrderIds, p \in UpdatePayloads :
           OrderUpdate(u, id, p)
    \/ \E u \in {"amy", "bob", "cat"}, id \in OrderIds, p \in UpdatePayloads :
           OrderPut(u, id, p)

SpecUpdate == Init /\ [][NextUpdate]_vars


\* The requester may update order o with payload p: a manager any order,
\* a courier the order assigned to him and only its status
MayUpdate(u, o, p) ==
    \/ MANAGER \in groups[u]
    \/ DELIVERY_CREW \in groups[u] /\ o.delivery_crew = u /\ DOMAIN p = {"status"}

\* C13: the order status moves freely in both directions: an update with
\* status=false, sent as PUT or PATCH by a manager or by the courier the
\* order is assigned to, is accepted on a completed order and leaves it
\* pending; completed is not a terminal state.
C13_StatusReverts ==
    [][\A u \in {"bob", "cat"}, id \in OrderIds, partial \in BOOLEAN,
          p \in {[status |-> FALSE], [status |-> FALSE, delivery_crew |-> NULL]} :
          (resp'.op = "order_update" /\ resp'.user = u
              /\ (\E o \in orders : o.id = id /\ o.status = TRUE /\ MayUpdate(u, o, p))
              /\ OrderUpdateWith(u, id, p, partial))
          => /\ resp'.status = 200
             /\ \E o2 \in orders' : o2.id = id /\ o2.status = FALSE]_vars

\* The courier's update was accepted and his order is pending, which only
\* an update with status=false does; the other order is completed.
C13_Witness ==
    /\ resp.op = "order_update" /\ resp.status = 200 /\ resp.user = "bob"
    /\ \E o \in orders :
           o.id \in resp.data /\ o.status = FALSE /\ o.delivery_crew = "bob"
    /\ \E o \in orders : o.id \notin resp.data /\ o.status = TRUE


\* The fields the requester's role may write
PermittedFields(u) ==
    IF MANAGER \in groups[u] THEN {"status", "delivery_crew"} ELSE {"status"}

Couriers == {"ann", "bob"}

NextCrew ==
    \/ CartCreateReq("amy", 1, QTY_MIN)
    \/ \E s \in Slots : CartInsert(s)
    \/ OrderCreateReq("amy")
    \/ \E s \in Slots : OrderInsert(s)
    \/ \E s \in Slots : OrderBuild(s)
    \/ \E s \in Slots : OrderSave(s)
    \/ \E s \in Slots : OrderClearCart(s)
    \/ \E s \in Slots : OrderCommit(s)
    \/ \E id \in OrderIds, x \in Couriers : OrderUpdate("cat", id, [delivery_crew |-> x])
    \/ \E id \in OrderIds : OrderUpdate("bob", id, [status |-> TRUE])
    \/ \E t \in Couriers : GroupCreate("cat", DELIVERY_CREW, t)
    \/ \E t \in Couriers : DeliveryCrewDestroyReq("cat", t)
    \/ \E s \in Slots : DeliveryCrewRemove(s)

SpecCrew == Init /\ [][NextCrew]_vars

\* Order o with its courier taken off
Unassigned(o) == [o EXCEPT !.delivery_crew = NULL]

\* C15: a removal from the Delivery crew group through the group endpoint
\* leaves no order with the removed user as delivery_crew; it changes those
\* orders in that field only (status, total, user and date stay), and leaves
\* the order lines and every order assigned to someone else as they were.
C15_RemovalUnassigns ==
    /\ [][\A s \in Slots, t \in Couriers :
            (inflight[s] = Idle /\ inflight'[s] # Idle
                /\ inflight'[s].kind = "delivery_crew_destroy" /\ inflight'[s].target = t)
            => /\ orders' = {IF o.delivery_crew = t THEN Unassigned(o) ELSE o : o \in orders}
               /\ UNCHANGED <<orderitems, cart, menuitems, categories>>]_vars
    /\ [][\A s \in Slots :
            (inflight[s] # Idle /\ inflight[s].kind = "delivery_crew_destroy"
                /\ inflight'[s] = Idle)
            => /\ UNCHANGED db
               /\ resp'.status = 200
                      => /\ \A o \in orders' : o.delivery_crew # inflight[s].target
                         /\ DELIVERY_CREW \notin groups'[inflight[s].target]]_vars

\* bob has just been taken off the roster; the order he delivered has no
\* courier now, the other order is still assigned to ann
C15_Witness ==
    /\ resp.op = "delivery_crew_destroy" /\ resp.status = 200
    /\ resp.detail = RemovedDetail("bob")
    /\ DELIVERY_CREW \notin groups["bob"]
    /\ \E o \in orders : o.delivery_crew = NULL /\ o.status = TRUE
    /\ \E o \in orders : o.delivery_crew = "ann" /\ o.status = FALSE

\* C22: a removal from the Delivery crew group that ends in a permission
\* denial leaves the group membership and every order's delivery_crew as
\* they were when the request arrived.
C22_DeniedRemovalKeepsOrders ==
    [][\A s \in Slots :
          (inflight[s] # Idle /\ inflight[s].kind = "delivery_crew_destroy"
              /\ inflight'[s] = Idle /\ resp'.status = 403)
          => /\ orders' = inflight[s].before
             /\ groups' = groups]_vars

\* C16: clearing the cart returns success and deletes all and only the
\* requester's cart lines; on an already empty cart it returns success and
\* changes no state, so a second clear leaves what the first one left.
C16_ClearCart ==
    [][\A u \in {"amy", "ann"} :
          (resp'.op = "cart_clear" /\ resp'.user = u /\ clear_cart(u))
          => /\ resp'.status = 200
             /\ cart' = {c \in cart : c.user # u}
             /\ {c \in cart' : c.user # u} = cart'
             /\ UNCHANGED <<categories, menuitems, orders, orderitems, groups, nextId>>
             /\ (\A c \in cart : c.user # u) => UNCHANGED <<db, groups, nextId>>]_vars

\* amy's cart has just been cleared and ann's line is still there
C16_Witness ==
    /\ resp.op = "cart_clear" /\ resp.status = 200 /\ resp.user = "amy"
    /\ resp.detail = "Cart cleared successfully."
    /\ \A c \in cart : c.user # "amy"
    /\ \E c \in cart : c.user = "ann"


(***************************************************************************)
(* Scope: customers fill carts and place orders, the manager assigns the   *)
(* courier, and everybody reads, updates and deletes cart lines and orders *)
(* by id, ids that were never given out included.  One request at a time.  *)
(***************************************************************************)
OrderProbeIds == 1..(MaxOrderId + 1)
CartProbeIds == 1..(MaxCartId + 1)
Probers == {"amy", "ann", "bob", "cat", ANON}

NextScope ==
    \/ \E u \in {"amy", "ann"} : CartCreateReq(u, 1, QTY_MIN)
    \/ \E s \in Slots : CartInsert(s)
    \/ \E u \in {"amy", "ann"} : OrderCreateReq(u)
    \/ \E s \in Slots : OrderInsert(s)
    \/ \E s \in Slots : OrderBuild(s)
    \/ \E s \in Slots : OrderSave(s)
    \/ \E s \in Slots : OrderClearCart(s)
    \/ \E s \in Slots : OrderCommit(s)
    \/ \E u \in Probers, id \in OrderProbeIds : OrderRetrieve(u, id)
    \/ \E u \in Probers, id \in OrderProbeIds, p \in {[status |-> TRUE], [delivery_crew |-> "bob"]} :
           OrderUpdate(u, id, p)
    \/ \E u \in Probers, id \in OrderProbeIds : OrderPut(u, id, [status |-> TRUE])
    \/ \E u \in Probers, id \in OrderProbeIds : OrderDestroy(u, id)
    \/ \E u \in Probers, id \in CartProbeIds : CartRetrieve(u, id)
    \/ \E u \in Probers, id \in CartProbeIds : CartUpdate(u, id, 2)
    \/ \E u \in Probers, id \in CartProbeIds : CartDestroy(u, id)

SpecScope == Init /\ [][NextScope]_vars

\* An order that exists outside the requester's scope, and an id no order has
OrderScope(u) == IF u = ANON THEN {} ELSE VisibleOrders(u)
HiddenOrder(u, id) == (\E o \in orders : o.id = id) /\ ~\E o \in OrderScope(u) : o.id = id
NoOrder(id) == ~\E o \in orders : o.id = id
HiddenLine(u, id) == \E c \in cart : c.id = id /\ c.user # u
NoLine(id) == ~\E c \in cart : c.id = id

\* C17: a retrieve, update or delete of an order or cart line that exists
\* outside the requester's scope changes nothing and is answered exactly as
\* the same request for an id that does not exist: the step taken for the
\* one id is also the step of the request for the other.
C17_HiddenAsMissing ==
    /\ [][\A u \in Probers :
            (resp'.user = u /\ resp'.op \in {"order_retrieve", "order_update", "order_destroy"})
            => \A id \in {x \in OrderProbeIds : HiddenOrder(u, x)},
                  none \in {x \in OrderProbeIds : NoOrder(x)} :
                  /\ (resp'.op = "order_retrieve" /\ OrderRetrieve(u, id))
                         => (OrderRetrieve(u, none) /\ UNCHANGED db)
                  /\ \A p \in {[status |-> TRUE], [delivery_crew |-> "bob"]} :
                         (resp'.op = "order_update" /\ OrderUpdate(u, id, p))
                             => (OrderUpdate(u, none, p) /\ UNCHANGED db)
                  /\ (resp'.op = "order_update" /\ OrderPut(u, id, [status |-> TRUE]))
                         => (OrderPut(u, none, [status |-> TRUE]) /\ UNCHANGED db)
                  /\ (resp'.op = "order_destroy" /\ OrderDestroy(u, id))
                         => (OrderDestroy(u, none) /\ UNCHANGED db)]_vars
    /\ [][\A u \in Probers :
            (resp'.user = u /\ resp'.op \in {"cart_retrieve", "cart_update", "cart_destroy"})
            => \A id \in {x \in CartProbeIds : HiddenLine(u, x)},
                  none \in {x \in CartProbeIds : NoLine(x)} :
                  /\ (resp'.op = "cart_retrieve" /\ CartRetrieve(u, id))
                         => (CartRetrieve(u, none) /\ UNCHANGED db)
                  /\ (resp'.op = "cart_update" /\ CartUpdate(u, id, 2))
                         => (CartUpdate(u, none, 2) /\ UNCHANGED db)
                  /\ (resp'.op = "cart_destroy" /\ CartDestroy(u, id))
                         => (CartDestroy(u, none) /\ UNCHANGED db)]_vars

\* amy was told that an order does not exist while ann's orders, which she
\* may not see, are there
C17_Witness ==
    /\ resp.op = "order_retrieve" /\ resp.user = "amy" /\ resp.status = 404
    /\ \E o \in orders : o.user = "ann"
    /\ \E o \in orders : o.user = "amy"


\* C18: while demo mode is enabled no request through the restaurant
\* endpoints changes or deletes a row whose is_demo flag is false: every
\* such category, menu item, cart line and order is there unchanged after
\* the step.
C18_DemoKeepsUnmarkedRows ==
    [][demoMode =>
          /\ \A c \in categories : ~c.is_demo => c \in categories'
          /\ \A m \in menuitems : ~m.is_demo => m \in menuitems'
          /\ \A c \in cart : ~c.is_demo => c \in cart'
          /\ \A o \in orders : ~o.is_demo => o \in orders']_vars


(***************************************************************************)
(* Demo sessions: visitors log in for a demo account and refresh their     *)
(* tokens while time passes.  One request at a time.                       *)
(***************************************************************************)
ClockSteps == {25, 700}
TokenIds == 1..MaxTokenId

NextDemo ==
    \/ \E role \in ROLES \cup {"chef"} : DemoLogin(role)
    \/ \E jti \in TokenIds : DemoTokenRefresh(jti)
    \/ \E d \in ClockSteps : Tick(d)

SpecDemo == Init /\ [][NextDemo]_vars

\* C19: every access token and refresh token issued for a demo user, by
\* the demo login and by the demo token refresh, expires no later than the
\* user's demo_expires_at.
C19_TokensWithinDemoLife ==
    \A t \in tokens :
        users[t.user].is_demo => t.exp <= users[t.user].demo_expires_at


\* The users whose membership in group g the step changes
MembershipChanged(g) == {x \in Accounts : (g \in groups[x]) # (g \in groups'[x])}

\* C20: through the group endpoints the Manager group changes only by a
\* request of an admin (is_staff or is_superuser), the Delivery crew group
\* only by a request of a manager or an admin; a manager who is not an
\* admin is refused every write to the Manager group and may list and
\* retrieve it; a denied request changes the membership of neither group.
C20_GroupRosterAccess ==
    [][\A u \in GroupRequesters :
          resp'.user = u
          => /\ groups' # groups
                    => /\ u # ANON
                       /\ resp'.status \in {200, 201}
                       /\ MembershipChanged(MANAGER) # {}
                              => (users[u].is_staff /\ resp'.op \in {"manager_create", "manager_destroy"})
                       /\ MembershipChanged(DELIVERY_CREW) # {}
                              => /\ users[u].is_staff \/ MANAGER \in groups[u]
                                 /\ resp'.op \in {"delivery_crew_create", "delivery_crew_destroy"}
             /\ resp'.status \in {401, 403} => groups' = groups
             /\ (u # ANON /\ inflight' = inflight /\ resp' # resp
                    /\ MANAGER \in groups[u] /\ ~users[u].is_staff)
                    => /\ resp'.op \in {"manager_create", "manager_destroy"}
                              => resp'.status = 403
                       /\ resp'.op = "manager_list" => resp'.status = 200
                       /\ resp'.op = "manager_retrieve" => resp'.status \in {200, 404}]_vars

\* The manager cat has just been refused a change of the Manager group,
\* to which the admin had added amy
C20_Witness ==
    /\ resp.op = "manager_create" /\ resp.user = "cat" /\ resp.status = 403
    /\ ~demoMode
    /\ MANAGER \in groups["amy"]
    /\ MANAGER \in groups["cat"] /\ ~users["cat"].is_staff


(***************************************************************************)
(* Cart ownership: two customers use their carts and place orders           *)
(***************************************************************************)
CartOwners == {"amy", "ann"}
OwnQuantities == {1, 2}

NextOwn ==
    \/ \E u \in CartOwners :
          \/ \E q \in OwnQuantities : CartCreateReq(u, 1, q)
          \/ CartList(u)
          \/ \E id \in CartIds : CartRetrieve(u, id)
          \/ \E id \in CartIds : CartUpdate(u, id, 3)
          \/ \E id \in CartIds : CartDestroy(u, id)
          \/ clear_cart(u)
          \/ OrderCreateReq(u)
    \/ \E s \in Slots :
          \/ CartInsert(s)
          \/ OrderInsert(s)
          \/ OrderBuild(s)
          \/ OrderSave(s)
          \/ OrderClearCart(s)
          \/ OrderCommit(s)
          \/ OrderFail(s)

SpecOwn == Init /\ [][NextOwn]_vars

LinesOf(u, lines) == {c \in lines : c.user = u}
LinesOfOthers(u, lines) == {c \in lines : c.user # u}

\* The slot the step works in, if it works in one
SteppedSlots == {s \in Slots : inflight'[s] # inflight[s]}

\* The user whose request the step belongs to
Actor ==
    IF SteppedSlots = {}
    THEN resp'.user
    ELSE LET s == CHOOSE x \in SteppedSlots : TRUE
         IN IF inflight'[s] # Idle THEN inflight'[s].user ELSE inflight[s].user

\* The step ends a request, so resp' is that request's response
Responded == \A s \in SteppedSlots : inflight'[s] = Idle

\* C21: a cart operation (list, retrieve, add, update, delete, clear) or an
\* order creation by user A leaves the cart lines of every other user as
\* they were, answers only with lines of A, decides on the empty cart from
\* A's lines alone and copies only lines of A into the order.
C21_OwnCartOnly ==
    [][\A u \in CartOwners :
          Actor = u =>
             /\ LinesOfOthers(u, cart') = LinesOfOthers(u, cart)
             /\ (Responded /\ resp'.op \in {"cart_list", "cart_retrieve", "cart_create",
                                            "cart_update", "cart_destroy"})
                   => resp'.data \subseteq {c.id : c \in LinesOf(u, cart \cup cart')}
             /\ (Responded /\ resp'.op = "cart_list" /\ resp'.status = 200)
                   => resp'.data = {c.id : c \in LinesOf(u, cart)}
             /\ (Responded /\ resp'.op = "cart_clear" /\ resp'.status = 200)
                   => LinesOf(u, cart') = {}
             /\ (Responded /\ resp'.op = "order_create" /\ resp'.status = 400)
                   => LinesOf(u, cart) = {}
             /\ (\E s \in SteppedSlots : inflight[s] = Idle /\ inflight'[s].kind = "order_create")
                   => LinesOf(u, cart) # {}
             /\ \A i \in orderitems' \ orderitems :
                   /\ \E o \in orders' : o.id = i.order /\ o.user = u
                   /\ \E c \in LinesOf(u, cart) :
                         /\ c.menuitem = i.menuitem
                         /\ c.quantity = i.quantity
                         /\ c.price = i.price
      ]_vars

\* amy's order is placed from her own line while ann keeps a different one
C21_Witness ==
    /\ resp.op = "order_create" /\ resp.user = "amy" /\ resp.status = 201
    /\ LinesOf("amy", cart) = {}
    /\ \E c \in LinesOf("ann", cart) :
          \A i \in orderitems : i.quantity # c.quantity
    /\ orderitems # {}


(***************************************************************************)
(* Demo expiry: a demo user logs in with some role and uses every endpoint *)
(* while the clock runs up to and past the account's expiry.               *)
(***************************************************************************)
\* The clock passes 720, the expiry of a login at 0, and ends beyond it
ExpirySteps == {360, 390}

DemoReads(u) ==
    \/ CategoryList(u)
    \/ MenuItemList(u)
    \/ CartList(u)
    \/ CartRetrieve(u, 1)
    \/ OrderList(u)
    \/ OrderRetrieve(u, 1)
    \/ CustomerList(u)
    \/ \E g \in STAFF_GROUPS : GroupList(u, g)
    \/ \E g \in STAFF_GROUPS : GroupRetrieve(u, g, "bob")

DemoGroupWrites(u) ==
    \/ \E g \in STAFF_GROUPS : GroupCreate(u, g, "dem")
    \/ ManagerGroupDestroy(u, "dem")
    \/ DeliveryCrewDestroyReq(u, "dem")

NextExpiry ==
    \/ \E role \in ROLES : DemoLogin(role)
    \/ \E d \in ExpirySteps : Tick(d)
    \/ \E u \in DemoNames :
          /\ users[u].created
          /\ \/ DemoReads(u)
             \/ CatalogWrite(u)
             \/ CartWrite(u)
             \/ OrderCreateReq(u)
             \/ OrderWrite(u)
             \/ DemoGroupWrites(u)
    \/ \E s \in Slots :
          \/ CartInsert(s)
          \/ OrderInsert(s)
          \/ OrderBuild(s)
          \/ OrderSave(s)
          \/ OrderClearCart(s)
          \/ OrderCommit(s)
          \/ DeliveryCrewRemove(s)

SpecExpiry == Init /\ [][NextExpiry]_vars

\* The demo account's expiry is at or before the current time
Expired(u) == users[u].is_demo /\ users[u].demo_expires_at <= clock

\* The step takes in a new request of u: it is no later statement of a
\* request in a worker slot, no clock tick and no demo login
RequestBy(u) ==
    /\ clock' = clock
    /\ users' = users
    /\ \A s \in SteppedSlots : inflight[s] = Idle
    /\ Actor = u

\* The permission lists of the views under the demo mixins
ViewPermissions ==
    {MenuPermissions, CartPermissions, GroupPermissions(MANAGER),
     GroupPermissions(DELIVERY_CREW)}
    \cup {OrderPermissions(m) : m \in {"GET", "POST", "PATCH", "DELETE"}}

\* The decision of the view's own permission classes
RoleDenied(perms, u, method) ==
    IF \E i \in 1..Len(perms) : ~Passes(perms[i], u, method) THEN 403 ELSE 0

\* C23: in demo mode a request by a demo user whose demo_expires_at is at
\* or before the current time is answered 403 on the menu, category, cart,
\* order and group endpoints and changes nothing; while the expiry is ahead
\* the check passes and the view's own permissions decide.
C23_ExpiredDemoDenied ==
    /\ [][\A u \in DemoNames :
             (demoMode /\ Expired(u) /\ RequestBy(u))
             => /\ resp'.status = 403
                /\ resp'.user = u
                /\ UNCHANGED <<db, groups, nextId, users, tokens, inflight>>]_vars
    /\ [](\A u \in DemoNames :
             (demoMode /\ users[u].is_demo /\ ~Expired(u))
             => /\ IsActiveDemo(u)
                /\ \A perms \in ViewPermissions :
                      \A m \in {"GET", "POST", "PATCH", "DELETE"} :
                         Denied(perms, u, m) = RoleDenied(perms, u, m))

\* The demo customer's cart listing is refused at the very minute the
\* account expires
C23_Witness ==
    /\ demoMode
    /\ users["dem"].is_demo
    /\ users["dem"].demo_expires_at = clock
    /\ groups["dem"] = {}
    /\ resp.op = "cart_list" /\ resp.user = "dem" /\ resp.status = 403


\* C24: an order stored by order creation has is_demo = TRUE exactly when
\* demo mode is enabled.
C24_OrderDemoFlagFollowsMode ==
    \A o \in orders : o.is_demo = demoMode


(***************************************************************************)
(* Staff requests that overlap: a customer places orders; the manager's    *)
(* order updates and roster changes run in MaxWorkers workers.             *)
(***************************************************************************)
StaffPayloads == {[status |-> TRUE], [delivery_crew |-> "bob"]}

NextStaffRace ==
    \/ CartCreateReq("amy", 1, QTY_MIN)
    \/ OrderCreateReq("amy")
    \/ \E id \in OrderIds, p \in StaffPayloads : OrderUpdateReq("cat", id, p, TRUE)
    \/ GroupCreate("cat", DELIVERY_CREW, "bob")
    \/ DeliveryCrewDestroyReq("cat", "bob")
    \/ \E s \in Slots :
          \/ CartInsert(s)
          \/ OrderInsert(s)
          \/ OrderBuild(s)
          \/ OrderSave(s)
          \/ OrderClearCart(s)
          \/ OrderCommit(s)
          \/ OrderUpdateSave(s)
          \/ DeliveryCrewRemove(s)

SpecStaffRace == InitRace /\ [][NextStaffRace]_vars

\* C25: when updates of one order interleave, the update that supplies
\* only delivery_crew leaves the stored status as it is and the update that
\* supplies only status leaves the stored delivery_crew as it is.
C25_UpdatesKeepOtherField ==
    [][\A s \in Slots :
          (inflight[s] # Idle /\ inflight[s].kind = "order_update"
              /\ inflight'[s] = Idle /\ resp'.status = 200)
          => \A o \in orders, o2 \in orders' :
                (o.id = inflight[s].instance.id /\ o2.id = o.id)
                => /\ ~Has(inflight[s].payload, "status") => o2.status = o.status
                   /\ ~Has(inflight[s].payload, "delivery_crew")
                         => o2.delivery_crew = o.delivery_crew]_vars


\* C29: every order's delivery_crew is null or a current member of the
\* Delivery crew group, also when an assignment and the courier's removal
\* from the group overlap.
C29_CourierIsCrewMember ==
    \A o \in orders :
        o.delivery_crew = NULL \/ DELIVERY_CREW \in groups[o.delivery_crew]


(***************************************************************************)
(* One customer, MaxWorkers workers: amy adds the dish to her cart, each   *)
(* time with another quantity, and places orders.                          *)
(***************************************************************************)
NextTwoOrders ==
    \/ CartCreateReq("amy", 1, nextId.cart)
    \/ OrderCreateReq("amy")
    \/ \E s \in Slots :
          \/ CartInsert(s)
          \/ OrderInsert(s)
          \/ OrderBuild(s)
          \/ OrderSave(s)
          \/ OrderClearCart(s)
          \/ OrderCommit(s)
          \/ OrderFail(s)

SpecTwoOrders == InitRace /\ [][NextTwoOrders]_vars

\* C26: no cart line is copied into the order lines of two orders.  Every
\* cart line of this specification has a quantity of its own, so two order
\* lines with one quantity are copies of one cart line.
C26_CartLineOrderedOnce ==
    \A i, j \in orderitems : i.quantity = j.quantity => i.order = j.order


(***************************************************************************)
(* One customer, MaxWorkers workers: amy adds the dish, changes its        *)
(* quantity, clears her cart and places orders.                            *)
(***************************************************************************)
NextCartRace ==
    \/ CartCreateReq("amy", 1, QTY_MIN)
    \/ \E id \in CartIds : CartUpdate("amy", id, 3)
    \/ clear_cart("amy")
    \/ OrderCreateReq("amy")
    \/ \E s \in Slots :
          \/ CartInsert(s)
          \/ OrderInsert(s)
          \/ OrderBuild(s)
          \/ OrderSave(s)
          \/ OrderClearCart(s)
          \/ OrderCommit(s)

SpecCartRace == InitRace /\ [][NextCartRace]_vars

\* C27: no order is stored without order lines, also when the cart is
\* emptied by another request after the empty-cart check has passed.
C27_NoEmptyOrder ==
    \A o \in orders : \E i \in orderitems : i.order = o.id


\* C28: when an order creation overlaps with an add to the cart or a
\* quantity update, every cart line its cart_items.delete() removes is
\* represented by an order line of the order with the quantity and price
\* the cart line has at that moment; a line added after the order lines
\* were built is therefore not removed.
C28_RemovedLinesAreOrdered ==
    [][\A s \in Slots :
          (AtOrderStep(s, "clear") /\ inflight'[s] # Idle /\ inflight'[s].pc = "commit")
          => \A c \in cart :
                c.id \in inflight'[s].w.del
                => \E i \in inflight[s].items :
                      /\ i.menuitem = c.menuitem
                      /\ i.quantity = c.quantity
                      /\ i.price = c.price]_vars


(***************************************************************************)
(* Large carts: the manager prices the dishes up to the maximum, a         *)
(* customer fills the cart with the smallest and the largest quantity and  *)
(* places the order.  One request at a time.                               *)
(***************************************************************************)
NextTotal ==
    \/ MenuItemCreate("cat", Pasta)
    \/ MenuItemUpdate("cat", 1, [price |-> PRICE_MAX], TRUE)
    \/ \E m \in MenuIds, q \in {QTY_MIN, QTY_MAX} : CartCreateReq("amy", m, q)
    \/ OrderCreateReq("amy")
    \/ \E s \in Slots :
          \/ CartInsert(s)
          \/ OrderInsert(s)
          \/ OrderBuild(s)
          \/ OrderSave(s)
          \/ OrderClearCart(s)
          \/ OrderCommit(s)

SpecTotal == Init /\ [][NextTotal]_vars

\* C30: the cart lines hold a quantity in 1..99 and a unit price in
\* (0, 100.00], and the total computed from them at order creation is at
\* most 9999.99, the largest value the total field can hold.
C30_TotalFitsField ==
    /\ \A c \in cart :
          QuantityValid(c.quantity) /\ c.unit_price > 0 /\ c.unit_price <= PRICE_MAX
    /\ \A s \in Slots : AtOrderStep(s, "save") => inflight[s].total <= DECIMAL_MAX

====
